---- MODULE Spec2Model ----
(***************************************************************************)
(* CampuSupport ticket service ("Code night 4.0/app/main.py"): the store   *)
(* (departments, users, tickets, comments), the request handlers that      *)
(* read and change it, and the last request/response exchange.             *)
(*                                                                         *)
(* Conventions.  A database NULL / Python None is NULL (0) for ids and     *)
(* timestamps and NONE for text columns.  Time is the value returned by    *)
(* datetime.utcnow(): a handler reads a time not earlier than the last     *)
(* time read (clock), and leaves clock at the last time it read.  The      *)
(* configuration is the default one of app/config.py (a sqlite url, no     *)
(* oracle key, no webhook).  Every user row has is_active = TRUE (column   *)
(* default, no handler changes it), so get_current_active_user admits      *)
(* every stored user; the actor of a request is the user its token names.  *)
(*                                                                         *)
(* Specifications.  Spec: the handlers under the default configuration.    *)
(* SpecOracle: the oracle-backed paths and the agent service               *)
(* (agent_service/main.py), with an oracle that may be configured.         *)
(* SpecReport: the department report.  SpecSeed: seeding from a store      *)
(* whose tables were just created.  SpecRace: status changes and comments  *)
(* on one ticket that overlap, split at their commit.                      *)
(***************************************************************************)
EXTENDS Integers, FiniteSets, Sequences, TLC

\* ---------------------------------------------------------------- bounds
MaxUsers == 2
MaxTickets == 1
MaxComments == 1
MaxClock == 2
\* Clock ticks in a day.
TicksPerDay == 2

\* ------------------------------------------------------------- constants
NULL == 0
NONE == "<none>"
\* None in a text column whose values are sequences of characters.
NoText == <<NONE>>
BotEmail == "agent@system.local"
SqliteUrl == TRUE
\* timedelta(days=7): the length of the report's week.
WeekDays == 7

RoleEnum == {"student", "support", "department", "admin"}
TicketStatus == {"open", "in_progress", "resolved", "closed"}
TicketPriority == {"low", "medium", "high"}

DefaultDepartments == <<"Bilgi Islem", "Yapi Isleri", "Ogrenci Isleri">>

\* ---------------------------------------------------------------- inputs
\* Registration requests: an address already taken (the bot's), or the
\* first unused address of EmailPool, with every role, with and without a
\* department.
EmailPool == <<"u1@x", "u2@x", "u3@x", "u4@x", "u5@x">>
FreshEmail(us) == EmailPool[Cardinality(DOMAIN us) + 1]
DeptInputs == {NULL, 1, 2}

\* Registration bodies (UserCreate): one with an email already taken, and
\* a fresh email with every role and department.
UserCreates(us) ==
    {[email |-> BotEmail, role |-> "student", department_id |-> NULL]}
    \cup {[email |-> FreshEmail(us), role |-> r, department_id |-> d] :
             r \in RoleEnum, d \in DeptInputs}
UserIds == 1..MaxUsers
TicketIds == 1..MaxTickets

TicketCreates ==
    {[title |-> "t1", description |-> <<"d", "1">>, department_id |-> d,
      priority |-> "low", category |-> NoText, assigned_unit |-> NoText] :
        d \in {1, 9}}

\* PATCH bodies as sent: the JSON object's keys, declared by TicketUpdate
\* or not.
TicketUpdates ==
    { <<>>, ("title" :> "t2" @@ "priority" :> "high"), ("created_by_id" :> 1),
      ("status" :> "closed") }

\* The fields TicketUpdate declares.
TicketUpdateFields ==
    {"title", "description", "priority", "category", "assigned_unit"}

\* Words of a description: with an urgency keyword (one in capitals), a
\* delay keyword, both at once, a keyword of each category group, none.
Vocabulary ==
    { <<"A", "c", "i", "l">>, <<"s", "l", "o", "w">>, <<"s", "l", "o", "w", "d", "o", "w", "n">>,
      <<"w", "i", "f", "i">>, <<"l", "a", "b">>,
      <<"r", "a", "n", "d", "e", "v", "u">>, <<"m", "e", "r", "h", "a", "b", "a">> }

\* Descriptions: empty, one word, two words.
Descriptions ==
    {<<>>} \cup Vocabulary
    \cup {a \o <<" ">> \o b : a \in Vocabulary, b \in Vocabulary}

\* What the oracle call returns: nothing (not configured, failed, or an
\* empty answer) or the text of an answer.
OracleAnswers ==
    { <<>>,
      <<"I", "n", "t", "e", "r", "n", "e", "t", ",", " ", "h", "i", "g", "h">>,
      <<"I", "n", "t", "e", "r", "n", "e", "t", ",", " ", "u", "r", "g", "e", "n", "t">>,
      <<"I", "n", "t", "e", "r", "n", "e", "t", ",">>,
      <<",", " ", "H", "I", "G", "H">>,
      <<"I", "n", "t", "e", "r", "n", "e", "t">>,
      <<"i", "n", "t", "e", "r", "n", "e", "t", ",", " ", "l", "o", "w">>,
      <<"o", "z", "e", "t", "\n", "c", "e", "v", "a", "p">>,
      <<"o", "z", "e", "t", "\n">>,
      <<"\n", "c", "e", "v", "a", "p">>,
      <<" ">> }

\* ------------------------------------------------------------------ text
\* A str is the sequence of its characters; the empty str, like None, is
\* falsy.
Whitespace == {" ", "\n"}

Lowercase ==
    "A" :> "a" @@ "B" :> "b" @@ "C" :> "c" @@ "D" :> "d" @@ "E" :> "e" @@ "F" :> "f"
    @@ "G" :> "g" @@ "H" :> "h" @@ "I" :> "i" @@ "J" :> "j" @@ "K" :> "k" @@ "L" :> "l"
    @@ "M" :> "m" @@ "N" :> "n" @@ "O" :> "o" @@ "P" :> "p" @@ "Q" :> "q" @@ "R" :> "r"
    @@ "S" :> "s" @@ "T" :> "t" @@ "U" :> "u" @@ "V" :> "v" @@ "W" :> "w" @@ "X" :> "x"
    @@ "Y" :> "y" @@ "Z" :> "z"

\* str.lower()
lower(text) ==
    [i \in 1..Len(text) |->
        IF text[i] \in DOMAIN Lowercase THEN Lowercase[text[i]] ELSE text[i]]

\* k in text
contains(text, k) ==
    \E i \in 1..(Len(text) - Len(k) + 1) : SubSeq(text, i, i + Len(k) - 1) = k

\* any(k in text for k in keywords)
any_in(text, keywords) ==
    \E j \in 1..Len(keywords) : contains(text, keywords[j])

RECURSIVE lstrip(_)
lstrip(text) ==
    IF text # <<>> /\ Head(text) \in Whitespace THEN lstrip(Tail(text)) ELSE text

RECURSIVE rstrip(_)
rstrip(text) ==
    IF text # <<>> /\ text[Len(text)] \in Whitespace
    THEN rstrip(SubSeq(text, 1, Len(text) - 1)) ELSE text

\* str.strip()
strip(text) == rstrip(lstrip(text))

\* The position of the first sep in text, 0 when there is none.
find(text, sep) ==
    IF \E i \in 1..Len(text) : text[i] = sep
    THEN CHOOSE i \in 1..Len(text) :
            text[i] = sep /\ \A j \in 1..(i - 1) : text[j] # sep
    ELSE 0

\* text.split(sep)
RECURSIVE split(_, _)
split(text, sep) ==
    LET i == find(text, sep) IN
    IF i = 0 THEN <<text>>
    ELSE <<SubSeq(text, 1, i - 1)>> \o split(SubSeq(text, i + 1, Len(text)), sep)

\* text.split(sep, 1)
split_once(text, sep) ==
    LET i == find(text, sep) IN
    IF i = 0 THEN <<text>>
    ELSE <<SubSeq(text, 1, i - 1), SubSeq(text, i + 1, Len(text))>>

\* text.split(): the maximal runs of characters that are not whitespace.
RECURSIVE words(_)
words(text) ==
    LET t == lstrip(text) IN
    IF t = <<>> THEN <<>>
    ELSE LET ends == {i \in 1..Len(t) : t[i] \in Whitespace}
             n == IF ends = {} THEN Len(t)
                  ELSE (CHOOSE i \in ends : \A j \in ends : i <= j) - 1
         IN <<SubSeq(t, 1, n)>> \o words(SubSeq(t, n + 1, Len(t)))

\* " ".join(ws)
RECURSIVE join(_)
join(ws) ==
    IF ws = <<>> THEN <<>>
    ELSE IF Len(ws) = 1 THEN ws[1]
    ELSE ws[1] \o <<" ">> \o join(Tail(ws))

\* The keyword lists of simple_priority_guess and simple_category_guess.
UrgencyKeywords ==
    << <<"a", "c", "i", "l">>,
       <<"u", "r", "g", "e", "n", "t">>,
       <<"k", "o", "p", "u", "y", "o", "r">>,
       <<"k", "i", "l", "i", "t">>,
       <<"d", "o", "w", "n">>,
       <<"c", "a", "l", "i", "s", "m", "i", "y", "o", "r">> >>

DelayKeywords ==
    << <<"y", "a", "v", "a", "s">>,
       <<"g", "e", "c", "i", "k">>,
       <<"s", "l", "o", "w">> >>

NetworkKeywords ==
    << <<"w", "i", "f", "i">>,
       <<"i", "n", "t", "e", "r", "n", "e", "t">>,
       <<"l", "m", "s">>,
       <<"v", "p", "n">>,
       <<"m", "o", "d", "e", "m">> >>

HardwareKeywords ==
    << <<"p", "r", "o", "j", "e", "k", "s", "i", "y", "o", "n">>,
       <<"m", "o", "n", "i", "t", "o", "r">>,
       <<"e", "k", "r", "a", "n">>,
       <<"d", "o", "n", "a", "n", "i", "m">>,
       <<"b", "i", "l", "g", "i", "s", "a", "y", "a", "r">>,
       <<"l", "a", "b">> >>

StudentKeywords ==
    << <<"r", "a", "n", "d", "e", "v", "u">>,
       <<"d", "a", "n", "i", "s", "m", "a", "n">>,
       <<"k", "a", "y", "i", "t">>,
       <<"t", "r", "a", "n", "s", "k", "r", "i", "p", "t">>,
       <<"o", "g", "r", "e", "n", "c", "i">> >>

\* The keyword lists of the agent (heuristic_priority, heuristic_category).
AgentUrgencyKeywords ==
    << <<"a", "c", "i", "l">>,
       <<"u", "r", "g", "e", "n", "t">>,
       <<"k", "o", "p", "u", "y", "o", "r">>,
       <<"k", "i", "l", "i", "t">>,
       <<"d", "o", "w", "n">>,
       <<"c", "a", "l", "i", "s", "m", "i", "y", "o", "r">> >>

AgentDelayKeywords ==
    << <<"y", "a", "v", "a", "s">>,
       <<"g", "e", "c", "i", "k">>,
       <<"s", "l", "o", "w">> >>

AgentNetworkKeywords ==
    << <<"w", "i", "f", "i">>,
       <<"i", "n", "t", "e", "r", "n", "e", "t">>,
       <<"l", "m", "s">>,
       <<"v", "p", "n">>,
       <<"m", "o", "d", "e", "m">> >>

AgentHardwareKeywords ==
    << <<"p", "r", "o", "j", "e", "k", "s", "i", "y", "o", "n">>,
       <<"m", "o", "n", "i", "t", "o", "r">>,
       <<"e", "k", "r", "a", "n">>,
       <<"d", "o", "n", "a", "n", "i", "m">>,
       <<"b", "i", "l", "g", "i", "s", "a", "y", "a", "r">>,
       <<"l", "a", "b">> >>

AgentStudentKeywords ==
    << <<"r", "a", "n", "d", "e", "v", "u">>,
       <<"d", "a", "n", "i", "s", "m", "a", "n">>,
       <<"k", "a", "y", "i", "t">>,
       <<"t", "r", "a", "n", "s", "k", "r", "i", "p", "t">>,
       <<"o", "g", "r", "e", "n", "c", "i">> >>

\* Category and unit names.
Internet == <<"I", "n", "t", "e", "r", "n", "e", "t">>
Donanim == <<"D", "o", "n", "a", "n", "i", "m">>
OgrenciIslemleri == <<"O", "g", "r", "e", "n", "c", "i", " ", "I", "s", "l", "e", "m", "l", "e", "r", "i">>
Genel == <<"G", "e", "n", "e", "l">>
Network == <<"N", "e", "t", "w", "o", "r", "k">>
OgrenciIsleri == <<"O", "g", "r", "e", "n", "c", "i", "I", "s", "l", "e", "r", "i">>

\* The values of TicketPriority, as text.
High == <<"h", "i", "g", "h">>
Medium == <<"m", "e", "d", "i", "u", "m">>
Low == <<"l", "o", "w">>
PriorityValues == {Low, Medium, High}

\* ---- ticket service heuristics
\* The delay keywords tested before the urgency keywords.
simple_priority_guess_delay_first(text) ==
    LET lowered == lower(text) IN
    IF any_in(lowered, DelayKeywords) THEN Medium
    ELSE IF any_in(lowered, UrgencyKeywords) THEN High
    ELSE Low

simple_priority_guess(text) ==
    LET lowered == lower(text) IN
    IF any_in(lowered, UrgencyKeywords) THEN High
    ELSE IF any_in(lowered, DelayKeywords) THEN Medium
    ELSE Low

\* The summary of build_summary_stub keeps at most this many words.
SummaryWords == 30

build_summary_stub(text) ==
    LET ws == words(text) IN
    IF Len(ws) <= SummaryWords THEN text
    ELSE join(SubSeq(ws, 1, SummaryWords)) \o <<" ", ".", ".", ".">>

build_reply_stub(text) ==
    <<"M", "e", "r", "h", "a", "b", "a", ",", " ", "b", "i", "l", "d", "i",
      "r", "i", "m", "i", "n", "i", "z", " ", "i", "c", "i", "n", " ", "t",
      "e", "s", "e", "k", "k", "u", "r", "l", "e", "r", ".", " ", "P", "r",
      "o", "b", "l", "e", "m", "i", " ", "i", "n", "c", "e", "l", "e", "m",
      "e", "y", "e", " ", "b", "a", "s", "l", "a", "d", "i", "k", ".", " ",
      "G", "e", "r", "e", "k", "l", "i", " ", "k", "o", "n", "t", "r", "o",
      "l", "l", "e", "r", "i", " ", "y", "a", "p", "i", "p", " ", "s", "i",
      "z", "e", " ", "k", "i", "s", "a", " ", "s", "u", "r", "e", "d", "e",
      " ", "d", "o", "n", "u", "s", " ", "y", "a", "p", "a", "c", "a", "g",
      "i", "z", ".">>

simple_category_guess(text) ==
    LET lowered == lower(text) IN
    IF any_in(lowered, NetworkKeywords) THEN Internet
    ELSE IF any_in(lowered, HardwareKeywords) THEN Donanim
    ELSE IF any_in(lowered, StudentKeywords) THEN OgrenciIslemleri
    ELSE Genel

\* ---- agent heuristics
heuristic_priority(text) ==
    LET lowered == lower(text) IN
    IF any_in(lowered, AgentUrgencyKeywords) THEN High
    ELSE IF any_in(lowered, AgentDelayKeywords) THEN Medium
    ELSE Low

\* The hardware group tested before the network group.
heuristic_category_hardware_first(text) ==
    LET lowered == lower(text) IN
    IF any_in(lowered, AgentHardwareKeywords) THEN Donanim
    ELSE IF any_in(lowered, AgentNetworkKeywords) THEN Internet
    ELSE IF any_in(lowered, AgentStudentKeywords) THEN OgrenciIslemleri
    ELSE Genel

heuristic_category(text) ==
    LET lowered == lower(text) IN
    IF any_in(lowered, AgentNetworkKeywords) THEN Internet
    ELSE IF any_in(lowered, AgentHardwareKeywords) THEN Donanim
    ELSE IF any_in(lowered, AgentStudentKeywords) THEN OgrenciIslemleri
    ELSE Genel

\* mapping.get(category, "Genel")
pick_unit(category) ==
    IF category = Internet THEN Network
    ELSE IF category = Donanim THEN Donanim
    ELSE IF category = OgrenciIslemleri THEN OgrenciIsleri
    ELSE Genel

\* agent-update bodies (AgentUpdate), with and without a message.
AgentUpdates ==
    { [priority |-> "high", category |-> Internet, assigned_unit |-> Network,
       message |-> m] : m \in {NONE, "msg"} }

\* sessions holds the database sessions of the requests in progress: for
\* each, the request, the ticket row it read and the row it holds in memory.
VARIABLES departments, users, tickets, comments, clock, exchange, sessions

vars == <<departments, users, tickets, comments, clock, exchange, sessions>>

\* --------------------------------------------------------------- helpers
Max(S) == CHOOSE x \in S : \A y \in S : y <= x

\* INTEGER PRIMARY KEY on sqlite: the new rowid is the largest one plus 1.
NextId(rows) == IF DOMAIN rows = {} THEN 1 ELSE Max(DOMAIN rows) + 1

Insert(rows, row) == [i \in DOMAIN rows \cup {NextId(rows)} |->
                        IF i \in DOMAIN rows THEN rows[i] ELSE row]

Remove(rows, ids) == [i \in DOMAIN rows \ ids |-> rows[i]]

Later(t) == t..MaxClock

\* --------------------------------------------------------------- startup
run_sqlite_migrations(deps, is_sqlite) ==
    IF ~is_sqlite THEN deps
    ELSE LET existing == {deps[i] : i \in DOMAIN deps}
             missing == SelectSeq(DefaultDepartments, LAMBDA n : n \notin existing)
             base == IF DOMAIN deps = {} THEN 0 ELSE Max(DOMAIN deps)
         IN [i \in DOMAIN deps \cup (base + 1)..(base + Len(missing)) |->
                IF i \in DOMAIN deps THEN deps[i] ELSE missing[i - base]]

seed_departments(deps) == deps

seed_agent_bot(us) ==
    IF \E u \in DOMAIN us : us[u].email = BotEmail THEN us
    ELSE Insert(us, [email |-> BotEmail, role |-> "admin", department_id |-> NULL])

\* ------------------------------------------------------------- responses
build_ticket_payload(id, t) ==
    [id |-> id, title |-> t.title, description |-> t.description,
     category |-> t.category, assigned_unit |-> t.assigned_unit,
     priority |-> t.priority, status |-> t.status,
     department_id |-> t.department_id, assigned_to_id |-> t.assigned_to_id,
     created_by_id |-> t.created_by_id, created_at |-> t.created_at,
     updated_at |-> t.updated_at, first_response_at |-> t.first_response_at,
     resolved_at |-> t.resolved_at, closed_at |-> t.closed_at]

\* A request (handler, acting user, ticket id, status or user id sent) and
\* its response (status code, the ticket payloads returned).
Exchange(op, actor, tid, st, uid, code, body) ==
    [op |-> op, actor |-> actor, ticket_id |-> tid, status |-> st,
     user_id |-> uid, department_id |-> NULL, role |-> NONE,
     description |-> <<>>, oracle |-> <<>>, calls |-> <<>>, sent |-> {},
     code |-> code, body |-> body]

\* No request is in progress: the last response has been delivered.
Idle == Exchange("idle", NULL, NULL, NONE, NULL, 0, {})

Ready == exchange = Idle

Reply(op, actor, tid, st, uid, code, body) ==
    /\ exchange' = Exchange(op, actor, tid, st, uid, code, body)
    /\ UNCHANGED sessions

\* The same for a request that names a department (and, for a
\* registration, a role) in its body.
ReplyDept(op, actor, tid, uid, dep, role, code, body) ==
    /\ exchange' = [Exchange(op, actor, tid, NONE, uid, code, body)
                       EXCEPT !.department_id = dep, !.role = role]
    /\ UNCHANGED sessions

\* The same for a request served with the oracle's help: the description
\* the request carries and what the oracle call returned.
ReplyOracle(op, actor, tid, description, ai_text, code, body) ==
    /\ exchange' = [Exchange(op, actor, tid, NONE, NULL, code, body)
                       EXCEPT !.description = description, !.oracle = ai_text]
    /\ UNCHANGED sessions

Store == <<departments, users, tickets, comments, clock>>

\* Visibility rule with the role test dropped from the department clause.
ensure_ticket_visibility_no_role(ticket, user, uid) ==
    \/ user.role = "admin"
    \/ ticket.created_by_id = uid
    \/ user.department_id = ticket.department_id

\* TRUE when the check returns, FALSE when it raises 403.
ensure_ticket_visibility(ticket, user, uid) ==
    \/ user.role = "admin"
    \/ ticket.created_by_id = uid
    \/ (user.role \in {"department", "support"}
        /\ user.department_id = ticket.department_id)

\* ------------------------------------------------------------------ init
Init ==
    /\ departments = run_sqlite_migrations(seed_departments(<<>>), SqliteUrl)
    /\ users = seed_agent_bot(<<>>)
    /\ tickets = <<>>
    /\ comments = <<>>
    /\ clock = 1
    /\ exchange = Idle
    /\ sessions = <<>>

startup_event ==
    /\ departments' = seed_departments(run_sqlite_migrations(departments, SqliteUrl))
    /\ users' = seed_agent_bot(users)
    /\ UNCHANGED <<tickets, comments, clock>>
    /\ Reply("startup_event", NULL, NULL, NONE, NULL, 0, {})

\* ------------------------------------------------------------- handlers
\* The department test left out of the registration checks.
register_check_no_department(us, email, role, dep) ==
    IF \E u \in DOMAIN us : us[u].email = email THEN 400 ELSE 201

\* The two tests of register_user, in the code's order: the email is taken,
\* then `not user_in.department_id` for a support or department role.
register_check(us, email, role, dep) ==
    IF \E u \in DOMAIN us : us[u].email = email THEN 400
    ELSE IF role \in {"support", "department"} /\ dep = NULL THEN 400
    ELSE 201

register_user(email, role, dep) ==
    IF register_check(users, email, role, dep) # 201
    THEN /\ ReplyDept("register_user", NULL, NULL, NULL, dep, role, 400, {})
         /\ UNCHANGED Store
    ELSE /\ Cardinality(DOMAIN users) < MaxUsers
         /\ users' = Insert(users, [email |-> email, role |-> role, department_id |-> dep])
         /\ ReplyDept("register_user", NULL, NULL, NextId(users), dep, role, 201, {})
         /\ UNCHANGED <<departments, tickets, comments, clock>>

\* The priority sent is dropped: the row gets the column default.
NewTicket_default_priority(ticket_in, uid, created, updated) ==
    [title |-> ticket_in.title, description |-> ticket_in.description,
     category |-> ticket_in.category, assigned_unit |-> ticket_in.assigned_unit,
     priority |-> "medium", status |-> "open",
     department_id |-> ticket_in.department_id, created_by_id |-> uid,
     assigned_to_id |-> NULL, created_at |-> created, updated_at |-> updated,
     first_response_at |-> NULL, resolved_at |-> NULL, closed_at |-> NULL,
     assigned_at |-> NULL]

\* The two column defaults read the time in the other order.
NewTicket_updated_first(ticket_in, uid, created, updated) ==
    [title |-> ticket_in.title, description |-> ticket_in.description,
     category |-> ticket_in.category, assigned_unit |-> ticket_in.assigned_unit,
     priority |-> ticket_in.priority, status |-> "open",
     department_id |-> ticket_in.department_id, created_by_id |-> uid,
     assigned_to_id |-> NULL, created_at |-> updated, updated_at |-> created,
     first_response_at |-> NULL, resolved_at |-> NULL, closed_at |-> NULL,
     assigned_at |-> NULL]

\* models.Ticket(...) as create_ticket builds it; created_at and updated_at
\* are the column defaults, read in column order when the row is inserted.
NewTicket(ticket_in, uid, created, updated) ==
    [title |-> ticket_in.title, description |-> ticket_in.description,
     category |-> ticket_in.category, assigned_unit |-> ticket_in.assigned_unit,
     priority |-> ticket_in.priority, status |-> "open",
     department_id |-> ticket_in.department_id, created_by_id |-> uid,
     assigned_to_id |-> NULL, created_at |-> created, updated_at |-> updated,
     first_response_at |-> NULL, resolved_at |-> NULL, closed_at |-> NULL,
     assigned_at |-> NULL]

\* create_ticket's checks with the support test left out.
create_ticket_check_support_allowed(user, dep, deps) ==
    IF dep \notin DOMAIN deps THEN 404 ELSE 201

\* create_ticket's checks with an own-department test for students and
\* department users added after the support test.
create_ticket_check_own_department(user, dep, deps) ==
    IF user.role = "support" THEN 403
    ELSE IF user.role \in {"student", "department"} /\ user.department_id # dep
    THEN 403
    ELSE IF dep \notin DOMAIN deps THEN 404
    ELSE 201

\* The checks of create_ticket, in the code's order: the support role is
\* refused, then the department is looked up.  Nothing compares the
\* department with the actor's own.
create_ticket_check(user, dep, deps) ==
    IF user.role = "support" THEN 403
    ELSE IF dep \notin DOMAIN deps THEN 404
    ELSE 201

create_ticket(uid, ticket_in) ==
    IF create_ticket_check(users[uid], ticket_in.department_id, departments) # 201
    THEN /\ ReplyDept("create_ticket", uid, NULL, NULL, ticket_in.department_id, NONE,
                   create_ticket_check(users[uid], ticket_in.department_id,
                                       departments), {})
         /\ UNCHANGED Store
    ELSE /\ Cardinality(DOMAIN tickets) < MaxTickets
         /\ \E created \in Later(clock) : \E updated \in Later(created) :
              LET id == NextId(tickets)
                  t == NewTicket(ticket_in, uid, created, updated)
              IN /\ tickets' = Insert(tickets, t)
                 /\ clock' = updated
                 /\ ReplyDept("create_ticket", uid, id, NULL,
                              ticket_in.department_id, NONE, 201,
                              {build_ticket_payload(id, t)})
         /\ UNCHANGED <<departments, users, comments>>

\* What get_ticket answers to user uid for ticket tid when the tables are
\* us and ts: the status code and the payload returned.
get_ticket_response(us, ts, uid, tid) ==
    IF tid \notin DOMAIN ts THEN [code |-> 404, body |-> {}]
    ELSE IF ~ensure_ticket_visibility(ts[tid], us[uid], uid)
    THEN [code |-> 403, body |-> {}]
    ELSE [code |-> 200, body |-> {build_ticket_payload(tid, ts[tid])}]

get_ticket(uid, tid) ==
    /\ UNCHANGED Store
    /\ LET r == get_ticket_response(users, tickets, uid, tid)
       IN Reply("get_ticket", uid, tid, NONE, NULL, r.code, r.body)

list_my_tickets(uid) ==
    /\ UNCHANGED Store
    /\ Reply("list_my_tickets", uid, NULL, NONE, NULL, 200,
             {build_ticket_payload(t, tickets[t]) :
                 t \in {x \in DOMAIN tickets : tickets[x].created_by_id = uid}})

\* No query parameters: the role filter alone.
list_tickets(uid) ==
    /\ UNCHANGED Store
    /\ LET role == users[uid].role
           rows == IF role = "student"
                   THEN {x \in DOMAIN tickets : tickets[x].created_by_id = uid}
                   ELSE IF role \in {"department", "support"}
                   THEN {x \in DOMAIN tickets :
                            tickets[x].department_id = users[uid].department_id}
                   ELSE DOMAIN tickets
       IN Reply("list_tickets", uid, NULL, NONE, NULL, 200,
                {build_ticket_payload(t, tickets[t]) : t \in rows})

\* The comments of the ticket are returned (200); body holds ticket
\* payloads only.
list_comments(uid, tid) ==
    /\ UNCHANGED Store
    /\ IF tid \notin DOMAIN tickets
       THEN Reply("list_comments", uid, tid, NONE, NULL, 404, {})
       ELSE IF ~ensure_ticket_visibility(tickets[tid], users[uid], uid)
       THEN Reply("list_comments", uid, tid, NONE, NULL, 403, {})
       ELSE Reply("list_comments", uid, tid, NONE, NULL, 200, {})

\* AISuggestRequest.description has min_length = 4.
MinDescription == 4

\* The response of ai_suggest: the oracle's answer as the category when
\* there is one, the keyword guess otherwise; the priority is always the
\* keyword guess.
suggest_response(description, ai_result) ==
    [suggested_category |-> IF ai_result # <<>> THEN ai_result
                            ELSE simple_category_guess(description),
     suggested_priority |-> simple_priority_guess(description)]

\* ai_suggest takes no token; a description that is too short is a
\* validation error (422).
ai_suggest(description, ai_result) ==
    /\ UNCHANGED Store
    /\ IF Len(description) < MinDescription
       THEN ReplyOracle("ai_suggest", NULL, NULL, description, ai_result, 422, {})
       ELSE ReplyOracle("ai_suggest", NULL, NULL, description, ai_result, 200,
                        {suggest_response(description, ai_result)})

\* The response of ticket_ai_insights: the first line of the oracle's answer
\* and the rest of it, each stripped, or the stubs.
insights_response(description, ai_text) ==
    IF ai_text # <<>>
    THEN LET parts == split_once(ai_text, "\n") IN
         [summary |-> strip(parts[1]),
          draft_reply |-> IF Len(parts) > 1 THEN strip(parts[2])
                          ELSE build_reply_stub(description)]
    ELSE [summary |-> build_summary_stub(description),
          draft_reply |-> build_reply_stub(description)]

\* ai_text is what call_ai_service returned: with the default configuration
\* (config.py, no oracle key) it is always nothing.
ticket_ai_insights(uid, tid, ai_text) ==
    /\ UNCHANGED Store
    /\ IF tid \notin DOMAIN tickets
       THEN ReplyOracle("ticket_ai_insights", uid, tid, <<>>, ai_text, 404, {})
       ELSE IF ~ensure_ticket_visibility(tickets[tid], users[uid], uid)
       THEN ReplyOracle("ticket_ai_insights", uid, tid, <<>>, ai_text, 403, {})
       ELSE ReplyOracle("ticket_ai_insights", uid, tid,
                        tickets[tid].description, ai_text, 200,
                        {insights_response(tickets[tid].description, ai_text)})

\* ---- update_ticket
\* The closed-ticket test waived for an admin.
update_ticket_check_admin_bypass(ticket, user, uid) ==
    IF user.role = "support" THEN 403
    ELSE IF user.role = "student" /\ ticket.created_by_id # uid THEN 403
    ELSE IF user.role = "department" /\ ticket.department_id # user.department_id THEN 403
    ELSE IF ticket.status = "closed" /\ user.role # "admin" THEN 400
    ELSE 200

\* The status code the guards of update_ticket end in (200: none raised).
update_ticket_check(ticket, user, uid) ==
    IF user.role = "support" THEN 403
    ELSE IF user.role = "student" /\ ticket.created_by_id # uid THEN 403
    ELSE IF user.role = "department" /\ ticket.department_id # user.department_id THEN 403
    ELSE IF ticket.status = "closed" THEN 400
    ELSE 200

\* A schema that keeps the keys it does not declare.
TicketUpdate_allow_extra(body) == body

\* TicketUpdate parsing followed by model_dump(exclude_unset=True): the
\* declared fields that were sent; pydantic drops the other keys.
TicketUpdate(body) ==
    [f \in DOMAIN body \cap TicketUpdateFields |-> body[f]]

Upd(t, updates, f) == IF f \in DOMAIN updates THEN updates[f] ELSE t[f]

\* for field, value in updates.items(): setattr(ticket, field, value),
\* then updated_at = utcnow().
apply_updates(t, updates, now) ==
    [[f \in DOMAIN t |-> Upd(t, updates, f)] EXCEPT !.updated_at = now]

update_ticket(uid, tid, payload) ==
    LET updates == TicketUpdate(payload) IN
    IF tid \notin DOMAIN tickets
    THEN /\ Reply("update_ticket", uid, tid, NONE, NULL, 404, {})
         /\ UNCHANGED Store
    ELSE LET code == update_ticket_check(tickets[tid], users[uid], uid) IN
         IF code # 200
         THEN /\ Reply("update_ticket", uid, tid, NONE, NULL, code, {})
              /\ UNCHANGED Store
         ELSE IF DOMAIN updates = {}
         THEN /\ Reply("update_ticket", uid, tid, NONE, NULL, 200,
                       {build_ticket_payload(tid, tickets[tid])})
              /\ UNCHANGED Store
         ELSE \E now \in Later(clock) :
                LET t == apply_updates(tickets[tid], updates, now)
                IN /\ tickets' = [tickets EXCEPT ![tid] = t]
                   /\ clock' = now
                   /\ Reply("update_ticket", uid, tid, NONE, NULL, 200,
                            {build_ticket_payload(tid, t)})
                   /\ UNCHANGED <<departments, users, comments>>

\* ---- assign_ticket
\* The department comparison left out.
assignee_check_any_department(ticket, sid) ==
    IF sid \notin DOMAIN users \/ users[sid].role # "support" THEN 400
    ELSE 200

\* The status code the checks of the named user end in (200: none raised).
assignee_check(ticket, sid) ==
    IF sid \notin DOMAIN users \/ users[sid].role # "support" THEN 400
    ELSE IF users[sid].department_id # ticket.department_id THEN 400
    ELSE 200

\* assigned_at is read first; updated_at is the column's onupdate value,
\* read when the UPDATE is flushed, and an UPDATE is flushed only when an
\* attribute has changed.
\* updated_at without its onupdate: an assignment leaves it alone.
apply_assign_no_onupdate(t, sid, now, flushed) ==
    [t EXCEPT !.assigned_to_id = sid, !.assigned_at = now]

apply_assign(t, sid, now, flushed) ==
    IF t.assigned_to_id = sid /\ t.assigned_at = now THEN t
    ELSE [t EXCEPT !.assigned_to_id = sid, !.assigned_at = now,
                   !.updated_at = flushed]

\* The assignment committed before the support user is checked.
assign_ticket_commit_first(uid, tid, sid) ==
    IF users[uid].role \notin {"department", "admin"}
    THEN /\ Reply("assign_ticket", uid, tid, NONE, sid, 403, {})
         /\ UNCHANGED Store
    ELSE IF tid \notin DOMAIN tickets
    THEN /\ Reply("assign_ticket", uid, tid, NONE, sid, 404, {})
         /\ UNCHANGED Store
    ELSE IF users[uid].role = "department"
            /\ tickets[tid].department_id # users[uid].department_id
    THEN /\ Reply("assign_ticket", uid, tid, NONE, sid, 403, {})
         /\ UNCHANGED Store
    ELSE \E now \in Later(clock) : \E flushed \in Later(now) :
           LET t == apply_assign(tickets[tid], sid, now, flushed)
               code == assignee_check(tickets[tid], sid)
           IN /\ tickets' = [tickets EXCEPT ![tid] = t]
              /\ clock' = flushed
              /\ Reply("assign_ticket", uid, tid, NONE, sid, code,
                       IF code = 200 THEN {build_ticket_payload(tid, t)} ELSE {})
              /\ UNCHANGED <<departments, users, comments>>

assign_ticket(uid, tid, sid) ==
    IF users[uid].role \notin {"department", "admin"}
    THEN /\ Reply("assign_ticket", uid, tid, NONE, sid, 403, {})
         /\ UNCHANGED Store
    ELSE IF tid \notin DOMAIN tickets
    THEN /\ Reply("assign_ticket", uid, tid, NONE, sid, 404, {})
         /\ UNCHANGED Store
    ELSE IF users[uid].role = "department"
            /\ tickets[tid].department_id # users[uid].department_id
    THEN /\ Reply("assign_ticket", uid, tid, NONE, sid, 403, {})
         /\ UNCHANGED Store
    ELSE IF assignee_check(tickets[tid], sid) # 200
    THEN /\ Reply("assign_ticket", uid, tid, NONE, sid,
                  assignee_check(tickets[tid], sid), {})
         /\ UNCHANGED Store
    ELSE \E now \in Later(clock) : \E flushed \in Later(now) :
           LET t == apply_assign(tickets[tid], sid, now, flushed)
           IN /\ tickets' = [tickets EXCEPT ![tid] = t]
              /\ clock' = flushed
              /\ Reply("assign_ticket", uid, tid, NONE, sid, 200,
                       {build_ticket_payload(tid, t)})
              /\ UNCHANGED <<departments, users, comments>>

\* ---- update_ticket_status
\* The assignee test of the support branch left out.
status_allowed_any_support(ticket, user, uid) ==
    IF user.role = "support" THEN TRUE
    ELSE IF user.role = "department"
    THEN ticket.department_id = user.department_id
    ELSE user.role # "student"

\* TRUE when none of the role branches raises 403.
status_allowed(ticket, user, uid) ==
    IF user.role = "support" THEN ticket.assigned_to_id = uid
    ELSE IF user.role = "department"
    THEN ticket.department_id = user.department_id
    ELSE user.role # "student"

\* first_response_at stamped on every entry to in_progress.
apply_status_restamp_response(t, st, now) ==
    [t EXCEPT !.status = st,
              !.updated_at = now,
              !.first_response_at = IF st = "in_progress" THEN now ELSE @,
              !.resolved_at = IF st \in {"resolved", "closed"} /\ @ = NULL
                              THEN now ELSE @,
              !.closed_at = IF st = "closed" THEN now ELSE @]

\* resolved_at stamped on every entry to resolved or closed.
apply_status_restamp_resolved(t, st, now) ==
    [t EXCEPT !.status = st,
              !.updated_at = now,
              !.first_response_at = IF st = "in_progress" /\ @ = NULL
                                    THEN now ELSE @,
              !.resolved_at = IF st \in {"resolved", "closed"} THEN now ELSE @,
              !.closed_at = IF st = "closed" THEN now ELSE @]

\* Reopening clears the resolution stamps.
apply_status_reopen_clears(t, st, now) ==
    [t EXCEPT !.status = st,
              !.updated_at = now,
              !.first_response_at = IF st = "in_progress" /\ @ = NULL
                                    THEN now ELSE @,
              !.resolved_at = IF st \in {"resolved", "closed"}
                              THEN (IF @ = NULL THEN now ELSE @) ELSE NULL,
              !.closed_at = IF st = "closed" THEN now
                            ELSE IF st = "open" THEN NULL ELSE @]

\* A linear status machine: a closed ticket keeps its status.
apply_status_closed_final(t, st, now) ==
    IF t.status = "closed" THEN [t EXCEPT !.updated_at = now]
    ELSE [t EXCEPT !.status = st,
                   !.updated_at = now,
                   !.first_response_at = IF st = "in_progress" /\ @ = NULL
                                         THEN now ELSE @,
                   !.resolved_at = IF st \in {"resolved", "closed"} /\ @ = NULL
                                   THEN now ELSE @,
                   !.closed_at = IF st = "closed" THEN now ELSE @]

\* resolved_at stamped on entry to resolved only.
apply_status_close_skips_resolved(t, st, now) ==
    [t EXCEPT !.status = st,
              !.updated_at = now,
              !.first_response_at = IF st = "in_progress" /\ @ = NULL
                                    THEN now ELSE @,
              !.resolved_at = IF st = "resolved" /\ @ = NULL THEN now ELSE @,
              !.closed_at = IF st = "closed" THEN now ELSE @]

\* closed_at kept from the first close.
apply_status_closed_once(t, st, now) ==
    [t EXCEPT !.status = st,
              !.updated_at = now,
              !.first_response_at = IF st = "in_progress" /\ @ = NULL
                                    THEN now ELSE @,
              !.resolved_at = IF st \in {"resolved", "closed"} /\ @ = NULL
                              THEN now ELSE @,
              !.closed_at = IF st = "closed" /\ @ = NULL THEN now ELSE @]

apply_status(t, st, now) ==
    [t EXCEPT !.status = st,
              !.updated_at = now,
              !.first_response_at = IF st = "in_progress" /\ @ = NULL
                                    THEN now ELSE @,
              !.resolved_at = IF st \in {"resolved", "closed"} /\ @ = NULL
                              THEN now ELSE @,
              !.closed_at = IF st = "closed" THEN now ELSE @]

\* send_resolution_notification: no webhook is configured, nothing is sent.
update_ticket_status(uid, tid, st) ==
    IF tid \notin DOMAIN tickets
    THEN /\ Reply("update_ticket_status", uid, tid, st, NULL, 404, {})
         /\ UNCHANGED Store
    ELSE IF ~status_allowed(tickets[tid], users[uid], uid)
    THEN /\ Reply("update_ticket_status", uid, tid, st, NULL, 403, {})
         /\ UNCHANGED Store
    ELSE \E now \in Later(clock) :
           LET t == apply_status(tickets[tid], st, now)
           IN /\ tickets' = [tickets EXCEPT ![tid] = t]
              /\ clock' = now
              /\ Reply("update_ticket_status", uid, tid, st, NULL, 200,
                       {build_ticket_payload(tid, t)})
              /\ UNCHANGED <<departments, users, comments>>

\* ---- delete_ticket
\* The status test of the student branch left out.
can_delete_any_status(ticket, user, uid) ==
    \/ user.role = "admin"
    \/ user.role = "department" /\ ticket.department_id = user.department_id
    \/ user.role = "student" /\ ticket.created_by_id = uid

can_delete(ticket, user, uid) ==
    \/ user.role = "admin"
    \/ user.role = "department" /\ ticket.department_id = user.department_id
    \/ (user.role = "student" /\ ticket.created_by_id = uid
        /\ ticket.status = "open")

\* A relationship without the delete cascade: the comments stay.
cascade_delete_none(cs, tid) == cs

\* Ticket.comments has cascade="all, delete": deleting the ticket deletes
\* the comments that belong to it.
cascade_delete(cs, tid) ==
    Remove(cs, {c \in DOMAIN cs : cs[c].ticket_id = tid})

\* db.delete(ticket): the comments relationship cascades the delete.
delete_ticket(uid, tid) ==
    IF tid \notin DOMAIN tickets
    THEN /\ Reply("delete_ticket", uid, tid, NONE, NULL, 404, {})
         /\ UNCHANGED Store
    ELSE IF ~can_delete(tickets[tid], users[uid], uid)
    THEN /\ Reply("delete_ticket", uid, tid, NONE, NULL, 403, {})
         /\ UNCHANGED Store
    ELSE /\ tickets' = Remove(tickets, {tid})
         /\ comments' = cascade_delete(comments, tid)
         /\ Reply("delete_ticket", uid, tid, NONE, NULL, 204, {})
         /\ UNCHANGED <<departments, users, clock>>

\* ---- add_comment
\* first_response_at stamped by every support comment.
apply_comment_restamp(t, role, now, responded) ==
    [t EXCEPT !.updated_at = now,
              !.first_response_at = IF role = "support" THEN responded ELSE @]

\* now and responded are the two successive reads of the time.
apply_comment(t, role, now, responded) ==
    [t EXCEPT !.updated_at = now,
              !.first_response_at = IF role = "support" /\ @ = NULL
                                    THEN responded ELSE @]

NewComment(tid, author, content, created) ==
    [ticket_id |-> tid, author_id |-> author, content |-> content,
     created_at |-> created]

add_comment(uid, tid) ==
    IF tid \notin DOMAIN tickets
    THEN /\ Reply("add_comment", uid, tid, NONE, NULL, 404, {})
         /\ UNCHANGED Store
    ELSE IF ~ensure_ticket_visibility(tickets[tid], users[uid], uid)
    THEN /\ Reply("add_comment", uid, tid, NONE, NULL, 403, {})
         /\ UNCHANGED Store
    ELSE /\ Cardinality(DOMAIN comments) < MaxComments
         /\ \E now \in Later(clock) : \E responded \in Later(now) :
            \E created \in Later(responded) :
              LET t == apply_comment(tickets[tid], users[uid].role, now, responded)
              IN /\ tickets' = [tickets EXCEPT ![tid] = t]
                 /\ comments' = Insert(comments, NewComment(tid, uid, "text", created))
                 /\ clock' = created
                 /\ Reply("add_comment", uid, tid, NONE, NULL, 201, {})
         /\ UNCHANGED <<departments, users>>

\* ---- internal_agent_update
\* The agent sends all four fields (agent_service process_ticket).
\* The bot's message counted as the first response.
apply_agent_update_first_response(t, payload, now) ==
    [t EXCEPT !.priority = IF payload.priority # NONE THEN payload.priority ELSE @,
              !.category = payload.category,
              !.assigned_unit = payload.assigned_unit,
              !.updated_at = now,
              !.first_response_at = IF @ = NULL THEN now ELSE @]

apply_agent_update(t, payload, now) ==
    [t EXCEPT !.priority = IF payload.priority # NONE THEN payload.priority ELSE @,
              !.category = payload.category,
              !.assigned_unit = payload.assigned_unit,
              !.updated_at = now]

BotUsers == {u \in DOMAIN users : users[u].email = BotEmail}

\* What internal_agent_update commits for an existing ticket: the fields
\* of the payload, updated_at, and the bot's comment when there is a
\* message and a bot user.
agent_update_effect(tid, payload) ==
    /\ payload.message # NONE /\ BotUsers # {}
         => Cardinality(DOMAIN comments) < MaxComments
    /\ \E now \in Later(clock) : \E created \in Later(now) :
         LET t == apply_agent_update(tickets[tid], payload, now)
             commented == payload.message # NONE /\ BotUsers # {}
         IN /\ tickets' = [tickets EXCEPT ![tid] = t]
            /\ comments' = IF commented
                           THEN Insert(comments,
                                  NewComment(tid, CHOOSE b \in BotUsers : TRUE,
                                             payload.message, created))
                           ELSE comments
            /\ clock' = IF commented THEN created ELSE now
            /\ ~commented => created = now
    /\ UNCHANGED <<departments, users>>

internal_agent_update(secret_ok, tid, payload) ==
    IF ~secret_ok
    THEN /\ Reply("internal_agent_update", NULL, tid, NONE, NULL, 401, {})
         /\ UNCHANGED Store
    ELSE IF tid \notin DOMAIN tickets
    THEN /\ Reply("internal_agent_update", NULL, tid, NONE, NULL, 404, {})
         /\ UNCHANGED Store
    ELSE /\ agent_update_effect(tid, payload)
         /\ Reply("internal_agent_update", NULL, tid, NONE, NULL, 200,
                  {build_ticket_payload(tid, tickets'[tid])})

\* ---- department_report
\* datetime.date(): the day a time falls on.
date(t) == t \div TicksPerDay

\* (a - b).total_seconds() / 60
minutes(a, b) == (a - b) * (1440 \div TicksPerDay)

\* The tickets the report of support user sid is computed over: the tickets
\* whose assigned_to_id is sid now.
support_tickets(ts, sid) == {t \in DOMAIN ts : ts[t].assigned_to_id = sid}

Sum(f, S) ==
    LET RECURSIVE sum(_)
        sum(R) == IF R = {} THEN 0
                  ELSE LET x == CHOOSE y \in R : TRUE IN f[x] + sum(R \ {x})
    IN sum(S)

Min(S) == CHOOSE x \in S : \A y \in S : x <= y

\* The week test without the test of the current status.
closed_in_week_any_status(ts, mine, start_date, week_end) ==
    {t \in mine : /\ ts[t].resolved_at # NULL
                  /\ start_date <= date(ts[t].resolved_at)
                  /\ date(ts[t].resolved_at) < week_end}

\* The tickets counted as closed this week: resolved_at is set, its date is
\* in [start_date, week_end), and the status is resolved or closed now.
closed_in_week(ts, mine, start_date, week_end) ==
    {t \in mine : /\ ts[t].resolved_at # NULL
                  /\ start_date <= date(ts[t].resolved_at)
                  /\ date(ts[t].resolved_at) < week_end
                  /\ ts[t].status \in {"resolved", "closed"}}

\* An average that is zero when there is nothing to average.
average_zero_when_empty(times, S) ==
    IF S = {} THEN <<0, 1>> ELSE <<Sum(times, S), Cardinality(S)>>

\* sum(times) / len(times) if times else None
average(times, S) ==
    IF S = {} THEN <<>> ELSE <<Sum(times, S), Cardinality(S)>>

\* One SupportReport.  An Optional[float] is <<>> for None, and otherwise
\* the pair <<numerator, denominator>> of the quotient.
support_report(us, ts, sid, start_date, week_end) ==
    LET mine == support_tickets(ts, sid)
        closed == closed_in_week(ts, mine, start_date, week_end)
        open_assigned == {t \in mine : ts[t].status \in {"open", "in_progress"}}
        start_point == [t \in mine |-> IF ts[t].assigned_at # NULL
                                       THEN ts[t].assigned_at ELSE ts[t].created_at]
        responded == {t \in mine : ts[t].first_response_at # NULL}
        resolved == {t \in mine : ts[t].resolved_at # NULL}
        response_times == [t \in responded |->
                             minutes(ts[t].first_response_at, start_point[t])]
        resolution_times == [t \in resolved |->
                               minutes(ts[t].resolved_at, start_point[t])]
    IN [support_user_id |-> sid,
        support_email |-> us[sid].email,
        closed_this_week |-> Cardinality(closed),
        open_assigned |-> Cardinality(open_assigned),
        average_response_minutes |-> average(response_times, responded),
        fastest_resolution_minutes |->
            IF resolved = {} THEN <<>>
            ELSE <<Min({resolution_times[t] : t \in resolved}), 1>>,
        slowest_resolution_minutes |->
            IF resolved = {} THEN <<>>
            ELSE <<Max({resolution_times[t] : t \in resolved}), 1>>]

\* The DepartmentReport: one item for each support user of the department.
report_response(us, ts, dep, start_date) ==
    LET week_end == start_date + WeekDays
        supports == {u \in DOMAIN us : us[u].role = "support"
                                        /\ us[u].department_id = dep}
    IN [department_id |-> dep, week_start |-> start_date, week_end |-> week_end,
        supports |-> {support_report(us, ts, u, start_date, week_end) :
                         u \in supports}]

\* week_start is <<>> when the query has none, <<d>> for the date d; without
\* it the report reads the time and starts seven days before today.
department_report(uid, dep, week_start) ==
    IF users[uid].role \notin {"department", "admin"}
    THEN /\ ReplyDept("department_report", uid, NULL, NULL, dep, NONE, 403, {})
         /\ UNCHANGED Store
    ELSE IF users[uid].role = "department" /\ users[uid].department_id # dep
    THEN /\ ReplyDept("department_report", uid, NULL, NULL, dep, NONE, 403, {})
         /\ UNCHANGED Store
    ELSE IF dep \notin DOMAIN departments
    THEN /\ ReplyDept("department_report", uid, NULL, NULL, dep, NONE, 404, {})
         /\ UNCHANGED Store
    ELSE \E now \in Later(clock) :
           /\ week_start # <<>> => now = clock
           /\ LET start_date == IF week_start # <<>> THEN week_start[1]
                                ELSE date(now) - WeekDays
              IN ReplyDept("department_report", uid, NULL, NULL, dep, NONE, 200,
                           {report_response(users, tickets, dep, start_date)})
           /\ clock' = now
           /\ UNCHANGED <<departments, users, tickets, comments>>

\* ---- the agent service (agent_service/main.py)
\* The classification of process_ticket: the two comma-separated parts of
\* the oracle's answer when it has a comma, the keyword guesses otherwise.
classify(description, ai_text) ==
    IF ai_text # <<>> /\ contains(ai_text, <<",">>)
    THEN LET raw == split(ai_text, ",")
             parts == [i \in 1..Len(raw) |-> strip(raw[i])]
         IN [category |-> IF parts[1] # <<>> THEN parts[1]
                          ELSE heuristic_category(description),
             priority |-> lower(IF Len(parts) > 1 THEN parts[2]
                                ELSE heuristic_priority(description))]
    ELSE [category |-> heuristic_category(description),
          priority |-> heuristic_priority(description)]

CalendarKeywords ==
    << <<"r", "a", "n", "d", "e", "v", "u">>,
       <<"d", "a", "n", "i", "s", "m", "a", "n">> >>

\* TRUE when a slot is offered.  No calendar service is configured
\* (CALENDAR_API_BASE is empty), so the slot is the stub and no call is made.
mock_calendar_flow(description) == any_in(lower(description), CalendarKeywords)

\* AgentUpdate.priority is a TicketPriority: the value a valid text names.
TicketPriorityOf(text) ==
    IF text = Low THEN "low" ELSE IF text = Medium THEN "medium" ELSE "high"

\* An oracle call that is made again after the first attempt.
outbound_calls_retry(configured) ==
    <<"fetch", "summary">>
    \o (IF configured THEN <<"oracle", "oracle">> ELSE <<>>)
    \o <<"push">>

\* The outbound calls of a run that gets past the ticket fetch, in order:
\* each call site is reached once, and call_ai makes no request when no
\* oracle is configured.
outbound_calls(configured) ==
    <<"fetch", "summary">>
    \o (IF configured THEN <<"oracle">> ELSE <<>>)
    \o <<"push">>

\* One run of process_ticket.  What the environment decides: whether the
\* ticket fetch, the user-summary fetch and the agent-update push get
\* through, whether an oracle is configured and what it returns.  calls
\* lists the outbound calls in the order they are made, each with whether
\* it returned a result; sent is the agent-update body pushed.
process_ticket(tid, fetch_ok, summary_ok, configured, answer, push_ok) ==
    /\ UNCHANGED sessions
    /\ IF ~(fetch_ok /\ tid \in DOMAIN tickets)
       THEN /\ exchange' = [Exchange("process_ticket", NULL, tid, NONE, NULL, 502, {})
                               EXCEPT !.calls = <<[call |-> "fetch", ok |-> FALSE]>>]
            /\ UNCHANGED Store
       ELSE LET description == tickets[tid].description
                creator == tickets[tid].created_by_id
                total == IF summary_ok
                         THEN Cardinality({t \in DOMAIN tickets :
                                             tickets[t].created_by_id = creator})
                         ELSE 0
                ai_text == IF configured THEN answer ELSE <<>>
                c == classify(description, ai_text)
                assigned_unit == pick_unit(c.category)
                update_payload == [priority |-> c.priority, category |-> c.category,
                                   assigned_unit |-> assigned_unit, message |-> "msg"]
                accepted == push_ok /\ c.priority \in PriorityValues
                made == outbound_calls(configured)
                ok == [n \in {"fetch", "summary", "oracle", "push"} |->
                         IF n = "fetch" THEN TRUE
                         ELSE IF n = "summary" THEN summary_ok
                         ELSE IF n = "oracle" THEN ai_text # <<>>
                         ELSE accepted]
                calls == [i \in 1..Len(made) |-> [call |-> made[i], ok |-> ok[made[i]]]]
                x == [Exchange("process_ticket", NULL, tid, NONE, NULL, 502, {})
                        EXCEPT !.description = description, !.oracle = ai_text,
                               !.calls = calls, !.sent = {update_payload}]
            IN IF ~accepted
               THEN /\ exchange' = x
                    /\ UNCHANGED Store
               ELSE /\ agent_update_effect(tid,
                           [update_payload EXCEPT
                               !.priority = TicketPriorityOf(c.priority)])
                    /\ exchange' =
                          [x EXCEPT !.code = 200,
                                    !.body = {[category |-> c.category,
                                               priority |-> c.priority,
                                               assigned_unit |-> assigned_unit,
                                               slot |-> mock_calendar_flow(description),
                                               total |-> total]}]

\* The response of the last request is delivered to its client; the
\* service then takes the next request.
deliver_response ==
    /\ ~Ready
    /\ exchange' = Idle
    /\ UNCHANGED <<Store, sessions>>

Next ==
    \/ Ready /\ startup_event
    \/ Ready /\ \E p \in UserCreates(users) :
          register_user(p.email, p.role, p.department_id)
    \/ Ready /\ \E u \in DOMAIN users, p \in TicketCreates : create_ticket(u, p)
    \/ Ready /\ \E u \in DOMAIN users, t \in TicketIds : get_ticket(u, t)
    \/ Ready /\ \E u \in DOMAIN users : list_my_tickets(u)
    \/ Ready /\ \E u \in DOMAIN users : list_tickets(u)
    \/ Ready /\ \E u \in DOMAIN users, t \in TicketIds : list_comments(u, t)
    \/ Ready /\ \E u \in DOMAIN users, t \in TicketIds :
          ticket_ai_insights(u, t, <<>>)
    \/ Ready /\ \E u \in DOMAIN users, t \in TicketIds, p \in TicketUpdates :
          update_ticket(u, t, p)
    \/ Ready /\ \E u \in DOMAIN users, t \in TicketIds, s \in UserIds :
          assign_ticket(u, t, s)
    \/ Ready /\ \E u \in DOMAIN users, t \in TicketIds, st \in TicketStatus :
          update_ticket_status(u, t, st)
    \/ Ready /\ \E u \in DOMAIN users, t \in TicketIds : delete_ticket(u, t)
    \/ Ready /\ \E u \in DOMAIN users, t \in TicketIds : add_comment(u, t)
    \/ Ready /\ \E ok \in BOOLEAN, t \in TicketIds, p \in AgentUpdates :
          internal_agent_update(ok, t, p)
    \/ deliver_response

Spec == Init /\ [][Next]_vars

\* ---- the oracle-backed paths, with an oracle that may be configured
\* A store holding one ticket, created by the bot, with any description.
InitOracle ==
    /\ departments = run_sqlite_migrations(seed_departments(<<>>), SqliteUrl)
    /\ users = seed_agent_bot(<<>>)
    /\ \E d \in Descriptions :
         tickets = Insert(<<>>, NewTicket(
                      [title |-> "t1", description |-> d, department_id |-> 1,
                       priority |-> "medium", category |-> NoText,
                       assigned_unit |-> NoText], 1, 1, 1))
    /\ comments = <<>>
    /\ clock = 1
    /\ exchange = Idle
    /\ sessions = <<>>

NextOracle ==
    \/ Ready /\ \E d \in Descriptions, a \in OracleAnswers : ai_suggest(d, a)
    \/ Ready /\ \E u \in DOMAIN users, t \in TicketIds, a \in OracleAnswers :
          ticket_ai_insights(u, t, a)
    \/ Ready /\ \E t \in TicketIds \cup {MaxTickets + 1}, a \in OracleAnswers :
          \E fetch_ok \in BOOLEAN, summary_ok \in BOOLEAN,
             configured \in BOOLEAN, push_ok \in BOOLEAN :
             process_ticket(t, fetch_ok, summary_ok, configured, a, push_ok)
    \/ deliver_response

SpecOracle == InitOracle /\ [][NextOracle]_vars

\* ---- the department report, with two support users in one department
\* week_start values of the query: none, and dates around the two days the
\* clock covers.
WeekStarts == {<<>>} \cup {<<d>> : d \in {-6, 0, 1}}

\* The bot, two support users of department 1, a department user of
\* department 2, and one ticket of department 1.
InitReport ==
    /\ departments = run_sqlite_migrations(seed_departments(<<>>), SqliteUrl)
    /\ users = Insert(Insert(Insert(seed_agent_bot(<<>>),
                    [email |-> EmailPool[1], role |-> "support", department_id |-> 1]),
                    [email |-> EmailPool[2], role |-> "support", department_id |-> 1]),
                    [email |-> EmailPool[3], role |-> "department", department_id |-> 2])
    /\ tickets = Insert(<<>>, NewTicket(CHOOSE p \in TicketCreates :
                                           p.department_id = 1, 1, 1, 1))
    /\ comments = <<>>
    /\ clock = 1
    /\ exchange = Idle
    /\ sessions = <<>>

NextReport ==
    \/ Ready /\ \E u \in DOMAIN users, t \in TicketIds, s \in DOMAIN users :
          assign_ticket(u, t, s)
    \/ Ready /\ \E u \in DOMAIN users, t \in TicketIds, st \in TicketStatus :
          update_ticket_status(u, t, st)
    \/ Ready /\ \E u \in DOMAIN users, t \in TicketIds : add_comment(u, t)
    \/ Ready /\ \E u \in DOMAIN users, d \in {1, 2, 9}, w \in WeekStarts :
          department_report(u, d, w)
    \/ deliver_response

SpecReport == InitReport /\ [][NextReport]_vars

\* ---- seeding, from a store whose tables were just created
\* The test module's setup: the tables are created and seed_departments
\* is called on its own.
setup_module ==
    /\ departments' = seed_departments(departments)
    /\ UNCHANGED <<users, tickets, comments, clock>>
    /\ Reply("seed_departments", NULL, NULL, NONE, NULL, 0, {})

\* Every table is empty: create_all has run and no seeding yet.
InitSeed ==
    /\ departments = <<>>
    /\ users = <<>>
    /\ tickets = <<>>
    /\ comments = <<>>
    /\ clock = 1
    /\ exchange = Idle
    /\ sessions = <<>>

NextSeed ==
    \/ Ready /\ setup_module
    \/ Ready /\ startup_event
    \/ Ready /\ \E p \in UserCreates(users) :
          register_user(p.email, p.role, p.department_id)
    \/ Ready /\ \E u \in DOMAIN users, p \in TicketCreates : create_ticket(u, p)
    \/ deliver_response

SpecSeed == InitSeed /\ [][NextSeed]_vars

\* ---- requests on one ticket that overlap
\* Requests served at the same time, each as its own unit of work.
MaxSessions == 2
SessionIds == 1..MaxSessions

\* The unit of work of a request: the request, the ticket row db.get
\* returned, and the row as the handler has changed it in memory.  No
\* version column or row lock ties the row read to the row written.
get_db_session(op, uid, tid, st, read, row) ==
    [op |-> op, actor |-> uid, ticket_id |-> tid, status |-> st,
     read |-> read, row |-> row]

\* update_ticket_status up to its commit: the ticket is read, the checks
\* run, the status and the stamps are set on the row in memory.
update_ticket_status_begin(s, uid, tid, st) ==
    /\ s \notin DOMAIN sessions
    /\ UNCHANGED <<departments, users, tickets, comments>>
    /\ IF tid \notin DOMAIN tickets
       THEN /\ Ready
            /\ exchange' = Exchange("update_ticket_status", uid, tid, st, NULL, 404, {})
            /\ UNCHANGED <<clock, sessions>>
       ELSE IF ~status_allowed(tickets[tid], users[uid], uid)
       THEN /\ Ready
            /\ exchange' = Exchange("update_ticket_status", uid, tid, st, NULL, 403, {})
            /\ UNCHANGED <<clock, sessions>>
       ELSE \E now \in Later(clock) :
              /\ clock' = now
              /\ sessions' = [i \in DOMAIN sessions \cup {s} |->
                                IF i = s
                                THEN get_db_session("update_ticket_status", uid, tid, st,
                                        tickets[tid], apply_status(tickets[tid], st, now))
                                ELSE sessions[i]]
              /\ UNCHANGED exchange

\* add_comment up to its commit.
add_comment_begin(s, uid, tid) ==
    /\ s \notin DOMAIN sessions
    /\ UNCHANGED <<departments, users, tickets, comments>>
    /\ IF tid \notin DOMAIN tickets
       THEN /\ Ready
            /\ exchange' = Exchange("add_comment", uid, tid, NONE, NULL, 404, {})
            /\ UNCHANGED <<clock, sessions>>
       ELSE IF ~ensure_ticket_visibility(tickets[tid], users[uid], uid)
       THEN /\ Ready
            /\ exchange' = Exchange("add_comment", uid, tid, NONE, NULL, 403, {})
            /\ UNCHANGED <<clock, sessions>>
       ELSE \E now \in Later(clock) : \E responded \in Later(now) :
              /\ clock' = responded
              /\ sessions' = [i \in DOMAIN sessions \cup {s} |->
                                IF i = s
                                THEN get_db_session("add_comment", uid, tid, NONE,
                                        tickets[tid],
                                        apply_comment(tickets[tid], users[uid].role,
                                                      now, responded))
                                ELSE sessions[i]]
              /\ UNCHANGED exchange

\* The row a commit leaves: the columns the session changed are written
\* over the row as it is now, the others are left as they are.
flush(current, read, row) ==
    [f \in DOMAIN current |-> IF row[f] # read[f] THEN row[f] ELSE current[f]]

\* db.commit() of session s, and the response.
commit(s) ==
    /\ s \in DOMAIN sessions
    /\ Ready
    /\ LET se == sessions[s]
           tid == se.ticket_id
           t == flush(tickets[tid], se.read, se.row)
       IN /\ tickets' = [tickets EXCEPT ![tid] = t]
          /\ IF se.op = "add_comment"
             THEN /\ Cardinality(DOMAIN comments) < MaxComments
                  /\ \E created \in Later(clock) :
                       /\ comments' = Insert(comments,
                                         NewComment(tid, se.actor, "text", created))
                       /\ clock' = created
                  /\ exchange' = Exchange(se.op, se.actor, tid, NONE, NULL, 201, {})
             ELSE /\ UNCHANGED <<comments, clock>>
                  /\ exchange' = Exchange(se.op, se.actor, tid, se.status, NULL, 200,
                                          {build_ticket_payload(tid, t)})
    /\ sessions' = [i \in DOMAIN sessions \ {s} |-> sessions[i]]
    /\ UNCHANGED <<departments, users>>

\* The bot, a support user of department 1, and a ticket of department 1
\* assigned to that user.
InitRace ==
    /\ departments = run_sqlite_migrations(seed_departments(<<>>), SqliteUrl)
    /\ users = Insert(seed_agent_bot(<<>>),
                    [email |-> EmailPool[1], role |-> "support", department_id |-> 1])
    /\ tickets = Insert(<<>>, apply_assign(
                     NewTicket(CHOOSE p \in TicketCreates : p.department_id = 1, 1, 1, 1),
                     2, 1, 1))
    /\ comments = <<>>
    /\ clock = 1
    /\ exchange = Idle
    /\ sessions = <<>>

\* The status changes that stamp a field.
StampingStatus == {"in_progress", "resolved", "closed"}

NextRace ==
    \/ \E s \in SessionIds, u \in DOMAIN users, t \in TicketIds, st \in StampingStatus :
          update_ticket_status_begin(s, u, t, st)
    \/ \E s \in SessionIds, u \in DOMAIN users, t \in TicketIds :
          add_comment_begin(s, u, t)
    \/ \E s \in SessionIds : commit(s)
    \/ deliver_response

SpecRace == InitRace /\ [][NextRace]_vars

\* ============================================================== claims
Stamps == {"first_response_at", "resolved_at", "closed_at", "assigned_at"}

Kept == DOMAIN tickets \cap DOMAIN tickets'

\* The exchange is a request op on ticket t that ended with code.
Did(x, op, t, code) == x.op = op /\ x.ticket_id = t /\ x.code = code

\* C1: first_response_at is write-once: a status change to in_progress on
\* a ticket whose first_response_at is null sets it to the time of the
\* change, and once it is set no step on the ticket changes its value.
C1_FirstResponseWriteOnce ==
    [][\A t \in Kept :
          /\ tickets[t].first_response_at # NULL
               => tickets'[t].first_response_at = tickets[t].first_response_at
          /\ (Did(exchange', "update_ticket_status", t, 200)
              /\ exchange'.status = "in_progress"
              /\ tickets[t].first_response_at = NULL)
               => tickets'[t].first_response_at = clock']_vars

\* A later entry to in_progress found first_response_at set at an earlier time.
C1_Witness ==
    \E t \in DOMAIN tickets :
        /\ Did(exchange, "update_ticket_status", t, 200)
        /\ exchange.status = "in_progress"
        /\ tickets[t].first_response_at # NULL
        /\ tickets[t].first_response_at < tickets[t].updated_at

\* C2: resolved_at is write-once: the first status change to resolved or
\* closed sets it to the time of the change, and no later step changes
\* it, a reopening followed by another resolve or close included.
C2_ResolvedWriteOnce ==
    [][\A t \in Kept :
          /\ tickets[t].resolved_at # NULL
               => tickets'[t].resolved_at = tickets[t].resolved_at
          /\ (Did(exchange', "update_ticket_status", t, 200)
              /\ exchange'.status \in {"resolved", "closed"}
              /\ tickets[t].resolved_at = NULL)
               => tickets'[t].resolved_at = clock']_vars

\* Resolved, then taken to in_progress at a later time (no comment exists,
\* so first_response_at is the time of that entry), then resolved again.
C2_Witness ==
    \E t \in DOMAIN tickets :
        /\ Did(exchange, "update_ticket_status", t, 200)
        /\ exchange.status \in {"resolved", "closed"}
        /\ comments = <<>>
        /\ tickets[t].resolved_at # NULL
        /\ tickets[t].resolved_at < tickets[t].first_response_at

\* The request that may set each stamp of ticket t.
StampEvent(x, t, f) ==
    CASE f = "first_response_at" ->
            \/ Did(x, "update_ticket_status", t, 200) /\ x.status = "in_progress"
            \/ Did(x, "add_comment", t, 201) /\ users[x.actor].role = "support"
      [] f = "resolved_at" ->
            Did(x, "update_ticket_status", t, 200)
            /\ x.status \in {"resolved", "closed"}
      [] f = "closed_at" ->
            Did(x, "update_ticket_status", t, 200) /\ x.status = "closed"
      [] f = "assigned_at" -> Did(x, "assign_ticket", t, 200)

\* C3: each of first_response_at, resolved_at, closed_at and assigned_at
\* of a ticket is null when the ticket is created, becomes non-null only
\* in a step that is its event (first response, resolve or close, close,
\* assignment), and once non-null is never null again.
C3_StampsNullUntilEventThenKept ==
    [][/\ \A t \in Kept : \A f \in Stamps :
            /\ tickets[t][f] # NULL => tickets'[t][f] # NULL
            /\ (tickets[t][f] = NULL /\ tickets'[t][f] # NULL)
                 => StampEvent(exchange', t, f)
       /\ \A t \in DOMAIN tickets' \ DOMAIN tickets : \A f \in Stamps :
            tickets'[t][f] = NULL]_vars

\* A ticket that was responded to, closed and assigned, and then reopened.
C3_Witness ==
    \E t \in DOMAIN tickets :
        /\ Did(exchange, "update_ticket_status", t, 200)
        /\ exchange.status = "open"
        /\ \A f \in Stamps : tickets[t][f] # NULL

\* C4: every stored ticket has created_at <= updated_at.
C4_CreatedBeforeUpdated ==
    \A t \in DOMAIN tickets : tickets[t].created_at <= tickets[t].updated_at

\* A ticket just created while the time advanced between its two defaults.
C4_Witness ==
    \E t \in DOMAIN tickets :
        /\ Did(exchange, "create_ticket", t, 201)
        /\ tickets[t].created_at < tickets[t].updated_at

\* C5: the assignee of every stored ticket is null or a support user of
\* the ticket's department.
C5_AssigneeIsSupportOfDepartment ==
    \A t \in DOMAIN tickets :
        LET a == tickets[t].assigned_to_id IN
        a # NULL => /\ a \in DOMAIN users
                    /\ users[a].role = "support"
                    /\ users[a].department_id = tickets[t].department_id

\* An assignment has just succeeded.
C5_Witness ==
    \E t \in DOMAIN tickets :
        /\ Did(exchange, "assign_ticket", t, 200)
        /\ tickets[t].assigned_to_id = exchange.user_id
        /\ tickets[t].assigned_to_id # NULL

\* The actor passes the role and department tests of assign_ticket.
MayAssign(actor, t) ==
    \/ users[actor].role = "admin"
    \/ users[actor].role = "department"
       /\ users[actor].department_id = tickets[t].department_id

\* C6: assign_ticket by an actor allowed to assign, naming a user that
\* does not exist, is not a support user, or is a support user of another
\* department, ends 400 and leaves the stored tickets as they were.
C6_BadAssigneeRejected ==
    [][\A t \in DOMAIN tickets :
          LET x == exchange'
              s == x.user_id IN
          (x.op = "assign_ticket" /\ x.ticket_id = t /\ MayAssign(x.actor, t)
           /\ (\/ s \notin DOMAIN users
               \/ users[s].role # "support"
               \/ users[s].department_id # tickets[t].department_id))
            => x.code = 400 /\ tickets' = tickets]_vars

\* A support user of another department was named and refused.
C6_Witness ==
    \E t \in DOMAIN tickets :
        /\ Did(exchange, "assign_ticket", t, 400)
        /\ exchange.user_id \in DOMAIN users
        /\ users[exchange.user_id].role = "support"
        /\ users[exchange.user_id].department_id # tickets[t].department_id

ViewOps == {"get_ticket", "list_tickets", "list_my_tickets", "list_comments",
            "ticket_ai_insights"}

\* C7: a request of a student to view, edit or delete returns no ticket
\* created by another user, and when it names such a ticket it ends 403
\* and leaves the tickets and comments as they were.
C7_StudentSeesOwnTicketsOnly ==
    [][LET x == exchange' IN
       (x.op \in ViewOps \cup {"update_ticket", "delete_ticket"}
        /\ users[x.actor].role = "student")
        => /\ \A p \in x.body :
                IF x.op = "ticket_ai_insights"
                THEN tickets[x.ticket_id].created_by_id = x.actor
                ELSE p.created_by_id = x.actor
           /\ (x.ticket_id \in DOMAIN tickets
               /\ tickets[x.ticket_id].created_by_id # x.actor)
                => /\ x.code = 403
                   /\ tickets' = tickets
                   /\ comments' = comments]_vars

\* A student of the ticket's department asked for a ticket of another user.
C7_Witness ==
    /\ exchange.op \in ViewOps \cup {"update_ticket", "delete_ticket"}
    /\ exchange.code = 403
    /\ users[exchange.actor].role = "student"
    /\ exchange.ticket_id \in DOMAIN tickets
    /\ tickets[exchange.ticket_id].created_by_id # exchange.actor
    /\ tickets[exchange.ticket_id].department_id = users[exchange.actor].department_id

\* The actors the policy lets change the status of ticket t.
MayChangeStatus(actor, t) ==
    \/ users[actor].role = "admin"
    \/ users[actor].role = "department"
       /\ users[actor].department_id = tickets[t].department_id
    \/ users[actor].role = "support" /\ tickets[t].assigned_to_id = actor

\* C8: update_ticket_status on an existing ticket by an actor who is not
\* admin, a department user of the ticket's department or the assigned
\* support user ends 403 and leaves the ticket as it was; the ticket
\* changes only for those actors.
C8_StatusChangeAuthorized ==
    [][\A t \in DOMAIN tickets :
          LET x == exchange' IN
          (x.op = "update_ticket_status" /\ x.ticket_id = t)
           => IF MayChangeStatus(x.actor, t)
              THEN x.code = 200
              ELSE x.code = 403 /\ tickets' = tickets]_vars

\* A support user of the ticket's department who is not its assignee was refused.
C8_Witness ==
    \E t \in DOMAIN tickets :
        /\ Did(exchange, "update_ticket_status", t, 403)
        /\ users[exchange.actor].role = "support"
        /\ users[exchange.actor].department_id = tickets[t].department_id

\* The actors the policy lets delete ticket t.
MayDelete(actor, t) ==
    \/ users[actor].role = "admin"
    \/ users[actor].role = "department"
       /\ users[actor].department_id = tickets[t].department_id
    \/ users[actor].role = "student" /\ tickets[t].created_by_id = actor
       /\ tickets[t].status = "open"

\* C9: delete_ticket on an existing ticket removes it when the actor is
\* admin, a department user of its department, or its creating student
\* while it is open; for every other actor (every support user, the
\* creating student once the status has left open) it ends 403 and the
\* ticket and the comments remain.
C9_DeleteAuthorized ==
    [][\A t \in DOMAIN tickets :
          LET x == exchange' IN
          (x.op = "delete_ticket" /\ x.ticket_id = t)
           => IF MayDelete(x.actor, t)
              THEN x.code = 204 /\ t \notin DOMAIN tickets'
              ELSE /\ x.code = 403
                   /\ tickets' = tickets
                   /\ comments' = comments]_vars

\* The creating student was refused because the ticket is no longer open.
C9_Witness ==
    \E t \in DOMAIN tickets :
        /\ Did(exchange, "delete_ticket", t, 403)
        /\ users[exchange.actor].role = "student"
        /\ tickets[t].created_by_id = exchange.actor
        /\ tickets[t].status # "open"

\* C10 as stated: update_ticket on a closed ticket ends 400 whatever the
\* role of the actor.
C10_ClosedEditAlways400 ==
    \A t \in DOMAIN tickets :
        (exchange.op = "update_ticket" /\ exchange.ticket_id = t
         /\ tickets[t].status = "closed")
         => exchange.code = 400

\* The role and ownership tests of update_ticket, which precede the
\* closed-ticket test.
PassesEditRoleTests(actor, t) ==
    /\ users[actor].role # "support"
    /\ users[actor].role = "student" => tickets[t].created_by_id = actor
    /\ users[actor].role = "department"
         => users[actor].department_id = tickets[t].department_id

\* C10 amended: update_ticket on a closed ticket is rejected for every
\* actor and leaves the ticket as it was; it ends 400 for an actor who
\* passes the role tests (admin included) and 403 for one who does not.
C10_ClosedEditRejected ==
    [][\A t \in DOMAIN tickets :
          LET x == exchange' IN
          (x.op = "update_ticket" /\ x.ticket_id = t
           /\ tickets[t].status = "closed")
           => /\ x.code = IF PassesEditRoleTests(x.actor, t) THEN 400 ELSE 403
              /\ tickets' = tickets]_vars

\* An admin's edit of a closed ticket was refused with 400.
C10_Witness ==
    \E t \in DOMAIN tickets :
        /\ Did(exchange, "update_ticket", t, 400)
        /\ users[exchange.actor].role = "admin"
        /\ tickets[t].status = "closed"

\* C11 as stated: create_ticket is Forbidden for a support user, succeeds for
\* an admin with any existing department, and succeeds for a student or a
\* department user only when the target department is the actor's own.
C11_OwnDepartmentOnly ==
    LET x == exchange IN
    x.op = "create_ticket" =>
        LET user == users[x.actor] IN
        /\ user.role = "support" => x.code = 403
        /\ (user.role = "admin" /\ x.department_id \in DOMAIN departments)
              => x.code = 201
        /\ (user.role \in {"student", "department"} /\ x.code = 201)
              => x.department_id = user.department_id

\* C11 amended: create_ticket is Forbidden for a support user; for every
\* other role it succeeds with any existing department, the actor's own or
\* not, and the new ticket belongs to the department named; with a
\* department that does not exist the actor gets NotFound.
C11_CreateByRole ==
    LET x == exchange IN
    x.op = "create_ticket" =>
        IF users[x.actor].role = "support" THEN x.code = 403
        ELSE IF x.department_id \in DOMAIN departments
        THEN /\ x.code = 201
             /\ x.ticket_id \in DOMAIN tickets
             /\ tickets[x.ticket_id].department_id = x.department_id
        ELSE x.code = 404

C11_Witness ==
    /\ exchange.op = "create_ticket"
    /\ exchange.code = 201
    /\ users[exchange.actor].role \in {"student", "department"}
    /\ users[exchange.actor].department_id # exchange.department_id

\* The operations whose request names a ticket.
TicketOps ==
    {"get_ticket", "list_comments", "ticket_ai_insights", "update_ticket",
     "assign_ticket", "update_ticket_status", "delete_ticket", "add_comment"}

\* C12: an authenticated request that targets a ticket or a department that
\* does not exist is answered NotFound whatever the actor's role, never
\* Forbidden.
C12_NotFoundBeforeForbidden ==
    [][LET x == exchange' IN
       /\ (x.op \in TicketOps /\ x.ticket_id \notin DOMAIN tickets)
             => x.code = 404
       /\ (x.op = "create_ticket" /\ x.department_id \notin DOMAIN departments)
             => x.code = 404]_vars

\* C13: the status machine is not linear: update_ticket_status by an actor
\* the policy allows succeeds whatever the ticket's current status and
\* whatever the target, the same status and the reopening of a resolved or
\* closed ticket included, and the ticket then has the requested status.
C13_AnyStatusToAnyStatus ==
    [][\A t \in DOMAIN tickets : \A from \in TicketStatus :
          LET x == exchange' IN
          (/\ x.op = "update_ticket_status" /\ x.ticket_id = t
           /\ MayChangeStatus(x.actor, t)
           /\ tickets[t].status = from)
           => /\ x.code = 200
              /\ tickets'[t].status = x.status]_vars

\* A ticket that was closed has been put back to open.
C13_Witness ==
    \E t \in DOMAIN tickets :
        /\ Did(exchange, "update_ticket_status", t, 200)
        /\ exchange.status = "open"
        /\ tickets[t].status = "open"
        /\ tickets[t].closed_at # NULL

\* C14: a ticket produced by create_ticket is new, has status open, the
\* acting user as its creator, no assignee, and first_response_at,
\* resolved_at, closed_at and assigned_at all null; and no ticket has a
\* support user as its creator.
C14_CreatedOpenByActor ==
    [][LET x == exchange' IN
       /\ (x.op = "create_ticket" /\ x.code = 201)
            => /\ x.ticket_id \notin DOMAIN tickets
               /\ x.ticket_id \in DOMAIN tickets'
               /\ LET t == tickets'[x.ticket_id] IN
                    /\ t.status = "open"
                    /\ t.created_by_id = x.actor
                    /\ t.assigned_to_id = NULL
                    /\ \A f \in Stamps : t[f] = NULL
       /\ \A t \in DOMAIN tickets' :
             users'[tickets'[t].created_by_id].role # "support"]_vars

C14_Witness ==
    /\ exchange.op = "create_ticket"
    /\ exchange.code = 201
    /\ users[exchange.actor].role = "department"
    /\ tickets[exchange.ticket_id].created_by_id = exchange.actor

\* C15: the creator of a ticket never changes: no step (an edit, an
\* assignment, a status change, a comment, an agent-update) by any actor
\* alters created_by_id of a ticket that exists before and after it.
C15_CreatorImmutable ==
    [][\A t \in Kept :
          tickets'[t].created_by_id = tickets[t].created_by_id]_vars

\* An admin has edited a ticket that another user created.
C15_Witness ==
    \E t \in DOMAIN tickets :
        /\ Did(exchange, "update_ticket", t, 200)
        /\ tickets[t].title = "t2"
        /\ tickets[t].created_by_id # exchange.actor

\* The step is a successful mutation of ticket t: an assignment, a status
\* change, an added comment, an agent-update, or an edit that writes.
Mutated(t) ==
    LET x == exchange' IN
    \/ Did(x, "assign_ticket", t, 200)
    \/ Did(x, "update_ticket_status", t, 200)
    \/ Did(x, "add_comment", t, 201)
    \/ Did(x, "internal_agent_update", t, 200)
    \/ Did(x, "update_ticket", t, 200) /\ tickets'[t] # tickets[t]

\* C16: every successful mutation of a ticket sets its updated_at to the
\* current time of that operation: a time the handler read, not before the
\* time of the previous operation and not after the handler's last read.
C16_MutationStampsUpdatedAt ==
    [][\A t \in Kept :
          Mutated(t) => /\ clock <= tickets'[t].updated_at
                        /\ tickets'[t].updated_at <= clock']_vars

\* An assignment made after the clock moved on from the ticket's creation.
C16_Witness ==
    \E t \in DOMAIN tickets :
        /\ Did(exchange, "assign_ticket", t, 200)
        /\ tickets[t].assigned_at = tickets[t].updated_at
        /\ tickets[t].created_at < tickets[t].updated_at

\* C17: add_comment by a support user who may view the ticket succeeds and,
\* when first_response_at is null, sets it to the current time, whatever the
\* ticket's status and whether or not the support user is the assignee; in
\* every other case (a set first_response_at, a commenter of another role)
\* add_comment leaves first_response_at as it was.
C17_SupportCommentIsFirstResponse ==
    [][\A t \in Kept :
          LET x == exchange'
              before == tickets[t].first_response_at
              after == tickets'[t].first_response_at
          IN
          /\ (/\ x.op = "add_comment" /\ x.ticket_id = t
              /\ users[x.actor].role = "support"
              /\ ensure_ticket_visibility(tickets[t], users[x.actor], x.actor))
               => x.code = 201
          /\ Did(x, "add_comment", t, 201)
               => IF users[x.actor].role = "support" /\ before = NULL
                  THEN after # NULL /\ clock <= after /\ after <= clock'
                  ELSE after = before]_vars

\* A support user who is not the assignee has commented on a closed ticket
\* that had no first response.
C17_Witness ==
    \E t \in DOMAIN tickets :
        /\ Did(exchange, "add_comment", t, 201)
        /\ users[exchange.actor].role = "support"
        /\ tickets[t].assigned_to_id # exchange.actor
        /\ tickets[t].status = "closed"
        /\ tickets[t].first_response_at > tickets[t].closed_at

\* C18: deleting a ticket deletes all its comments: in every reachable
\* state the parent ticket of every comment exists.
C18_NoOrphanComment ==
    \A c \in DOMAIN comments : comments[c].ticket_id \in DOMAIN tickets

\* A ticket has been deleted and no comment is left.
C18_Witness ==
    /\ exchange.op = "delete_ticket"
    /\ exchange.code = 204
    /\ exchange.ticket_id \notin DOMAIN tickets
    /\ comments = <<>>

\* C19: register_user answers 400 to a support or department registration
\* that names no department and adds no user, and after every step every
\* user with role support or department has a department.
C19_StaffHaveDepartment ==
    [][LET x == exchange' IN
       /\ (/\ x.op = "register_user"
           /\ x.role \in {"support", "department"}
           /\ x.department_id = NULL)
            => x.code = 400 /\ users' = users
       /\ \A u \in DOMAIN users' :
             users'[u].role \in {"support", "department"}
               => users'[u].department_id # NULL]_vars

\* A support registration without a department has been refused.
C19_Witness ==
    /\ exchange.op = "register_user"
    /\ exchange.role = "support"
    /\ exchange.department_id = NULL
    /\ exchange.code = 400
    /\ \A u \in DOMAIN users : users[u].role # "support"

\* The four fields of the round trip agree between a and b.
SameFields(a, b) ==
    /\ a.title = b.title
    /\ a.description = b.description
    /\ a.priority = b.priority
    /\ a.department_id = b.department_id

\* C20: round trip: once create_ticket has succeeded for body p, get_ticket
\* by the creator on the tables that create_ticket left answers 200 with a
\* payload whose title, description, priority and department are those of
\* p, and the response of create_ticket carries the same four values.
C20_CreateThenGet ==
    [][\A u \in DOMAIN users : \A p \in TicketCreates :
          (create_ticket(u, p) /\ exchange'.code = 201)
            => LET r == get_ticket_response(users', tickets', u,
                                            exchange'.ticket_id)
               IN /\ r.code = 200
                  /\ r.body # {}
                  /\ \A b \in r.body : SameFields(b, p)
                  /\ \A b \in exchange'.body : SameFields(b, p)]_vars

\* The creator has fetched a ticket that nothing has touched since it was
\* created, and got the values submitted.
C20_Witness ==
    \E t \in DOMAIN tickets : \E p \in TicketCreates :
        /\ Did(exchange, "get_ticket", t, 200)
        /\ exchange.actor = tickets[t].created_by_id
        /\ tickets[t].updated_at = tickets[t].created_at
        /\ tickets[t].status = "open"
        /\ \A b \in exchange.body : SameFields(b, p)
        /\ exchange.body # {}

\* C21: every oracle-backed path returns a usable result and never an
\* error, whatever the oracle does: ai_suggest (for a valid request) and
\* ticket_ai_insights (for a viewer of an existing ticket) answer 200, the
\* suggested category is non-empty and the suggested priority is low,
\* medium or high, the insight summary and draft reply are non-empty, and
\* the classification process_ticket pushes has a non-empty category and a
\* priority that is low, medium or high.
C21_OraclePathsUsable ==
    LET x == exchange IN
    /\ (x.op = "ai_suggest" /\ Len(x.description) >= MinDescription)
         => /\ x.code = 200
            /\ \A b \in x.body : /\ b.suggested_category # <<>>
                                  /\ b.suggested_priority \in PriorityValues
    /\ (/\ x.op = "ticket_ai_insights"
        /\ x.ticket_id \in DOMAIN tickets
        /\ ensure_ticket_visibility(tickets[x.ticket_id], users[x.actor], x.actor))
         => /\ x.code = 200
            /\ \A b \in x.body : b.summary # <<>> /\ b.draft_reply # <<>>
    /\ x.op = "process_ticket"
         => \A p \in x.sent : /\ p.category # <<>>
                               /\ p.priority \in PriorityValues

\* C22: a department_report by an actor allowed to see it, for an existing
\* department, succeeds; a support user none of whose tickets has a first
\* response gets a null average_response_minutes, one none of whose tickets
\* is resolved gets null fastest and slowest resolution minutes, one with
\* no ticket also gets counts of 0; and without support users the list is
\* empty.
C22_NoTicketsNullFigures ==
    LET x == exchange IN
    (/\ x.op = "department_report"
     /\ \/ users[x.actor].role = "admin"
        \/ users[x.actor].role = "department"
           /\ users[x.actor].department_id = x.department_id
     /\ x.department_id \in DOMAIN departments)
    => /\ x.code = 200
       /\ \A r \in x.body :
            /\ {i.support_user_id : i \in r.supports}
                 = {u \in DOMAIN users : users[u].role = "support"
                       /\ users[u].department_id = x.department_id}
            /\ \A i \in r.supports :
                 LET mine == support_tickets(tickets, i.support_user_id) IN
                 /\ (\A t \in mine : tickets[t].first_response_at = NULL)
                      => i.average_response_minutes = <<>>
                 /\ (\A t \in mine : tickets[t].resolved_at = NULL)
                      => /\ i.fastest_resolution_minutes = <<>>
                         /\ i.slowest_resolution_minutes = <<>>
                 /\ mine = {}
                      => i.closed_this_week = 0 /\ i.open_assigned = 0

\* A report in which one support user has a resolved ticket and the other
\* has no ticket at all.
C22_Witness ==
    /\ exchange.op = "department_report"
    /\ exchange.code = 200
    /\ \E r \in exchange.body : \E i, j \in r.supports :
         /\ i.fastest_resolution_minutes # <<>>
         /\ support_tickets(tickets, j.support_user_id) = {}
         /\ j.average_response_minutes = <<>>
         /\ j.slowest_resolution_minutes = <<>>
         /\ j.closed_this_week = 0

\* C23: the report of a support user is computed over every ticket that was
\* ever assigned to that user: a ticket the report of user s is computed
\* over stays among them for as long as it exists, also after it is
\* assigned to another support user.
C23_EverAssignedCounted ==
    [][\A s \in DOMAIN users : \A t \in Kept :
          t \in support_tickets(tickets, s)
            => t \in support_tickets(tickets', s)]_vars

\* C24 as stated: closed_this_week is the number of the user's tickets
\* whose resolved_at date lies in [week_start, week_end), and open_assigned
\* the number of those whose status is open or in_progress.
C24_ClosedByResolvedDate ==
    LET x == exchange IN
    (x.op = "department_report" /\ x.code = 200)
    => \A r \in x.body : \A i \in r.supports :
         LET mine == support_tickets(tickets, i.support_user_id) IN
         /\ i.closed_this_week =
               Cardinality({t \in mine :
                    /\ tickets[t].resolved_at # NULL
                    /\ r.week_start <= date(tickets[t].resolved_at)
                    /\ date(tickets[t].resolved_at) < r.week_start + WeekDays})
         /\ i.open_assigned =
               Cardinality({t \in mine :
                    tickets[t].status \in {"open", "in_progress"}})

\* C24 amended: closed_this_week is the number of the user's tickets whose
\* status is resolved or closed now and whose resolved_at date lies in
\* [week_start, week_end), where week_end is week_start plus seven days;
\* open_assigned is the number of the user's tickets whose status is open
\* or in_progress.
C24_ClosedThisWeek ==
    LET x == exchange IN
    (x.op = "department_report" /\ x.code = 200)
    => \A r \in x.body :
         /\ r.week_end = r.week_start + WeekDays
         /\ \A i \in r.supports :
              LET mine == support_tickets(tickets, i.support_user_id) IN
              /\ i.closed_this_week =
                    Cardinality({t \in mine :
                         /\ tickets[t].status \in {"resolved", "closed"}
                         /\ tickets[t].resolved_at # NULL
                         /\ r.week_start <= date(tickets[t].resolved_at)
                         /\ date(tickets[t].resolved_at) < r.week_end})
              /\ i.open_assigned =
                    Cardinality({t \in mine :
                         tickets[t].status \in {"open", "in_progress"}})

\* A report over a reopened ticket: resolved in the week, open again, and
\* counted as open and not as closed.
C24_Witness ==
    /\ exchange.op = "department_report"
    /\ exchange.code = 200
    /\ \E r \in exchange.body : \E i \in r.supports :
         \E t \in support_tickets(tickets, i.support_user_id) :
            /\ tickets[t].resolved_at # NULL
            /\ r.week_start <= date(tickets[t].resolved_at)
            /\ date(tickets[t].resolved_at) < r.week_end
            /\ tickets[t].status = "open"
            /\ i.closed_this_week = 0
            /\ i.open_assigned = 1

\* The outbound call named n was made in the run x records / returned a
\* result.
Made(x, n) == \E i \in 1..Len(x.calls) : x.calls[i].call = n
Succeeded(x, n) == \E i \in 1..Len(x.calls) : x.calls[i].call = n /\ x.calls[i].ok

\* C25: in process_ticket every outbound call is attempted at most once; a
\* failed ticket fetch ends the run with 502 before any other call, a
\* failed agent-update push ends it with 502, and neither changes the
\* store; a failed user-summary fetch counts as no earlier tickets and an
\* oracle that returns nothing gives the keyword classification, and the
\* run goes on to the push and ends 200 when the push gets through; no
\* agent-update is pushed unless the ticket fetch succeeded.
C25_AgentCallsOnceNoRetry ==
    [][LET x == exchange' IN
       x.op = "process_ticket" =>
         /\ \A i, j \in 1..Len(x.calls) :
               x.calls[i].call = x.calls[j].call => i = j
         /\ x.calls[1].call = "fetch"
         /\ ~Succeeded(x, "fetch")
              => /\ x.code = 502
                 /\ Len(x.calls) = 1
                 /\ x.sent = {}
                 /\ tickets' = tickets /\ comments' = comments
         /\ (Made(x, "push") \/ x.sent # {} \/ tickets' # tickets)
              => Succeeded(x, "fetch")
         /\ Succeeded(x, "fetch")
              => /\ Made(x, "summary")
                 /\ x.calls[Len(x.calls)].call = "push"
         /\ (Made(x, "push") /\ ~Succeeded(x, "push"))
              => /\ x.code = 502
                 /\ tickets' = tickets /\ comments' = comments
         /\ Succeeded(x, "push")
              => /\ x.code = 200
                 /\ \A b \in x.body :
                      /\ ~Succeeded(x, "summary") => b.total = 0
                      /\ ~Succeeded(x, "oracle")
                           => /\ b.category = heuristic_category(x.description)
                              /\ b.priority = heuristic_priority(x.description)]_vars

\* A run whose user-summary fetch failed and whose oracle call returned
\* nothing, and that ended 200 after one call of each kind.
C25_Witness ==
    /\ exchange.op = "process_ticket"
    /\ exchange.code = 200
    /\ Made(exchange, "oracle") /\ ~Succeeded(exchange, "oracle")
    /\ ~Succeeded(exchange, "summary")
    /\ Len(exchange.calls) = 4
    /\ \E b \in exchange.body : b.total = 0
\* C26: after seed_departments or the startup event has run, each default
\* department exists exactly once and department id 1 exists; after the
\* startup event exactly one user has the bot's email, and it is an admin.
C26_SeedingComplete ==
    exchange.op \in {"seed_departments", "startup_event"}
    => /\ \A i \in 1..Len(DefaultDepartments) :
            Cardinality({d \in DOMAIN departments :
                           departments[d] = DefaultDepartments[i]}) = 1
       /\ 1 \in DOMAIN departments
       /\ exchange.op = "startup_event"
            => /\ Cardinality({u \in DOMAIN users :
                                 users[u].email = BotEmail}) = 1
               /\ \A u \in DOMAIN users :
                    users[u].email = BotEmail => users[u].role = "admin"

\* seed_departments has run on the fresh store and the ticket for
\* department 1 that follows is refused: the department is not there.
C26_FreshStoreNoDepartment ==
    /\ departments = <<>>
    /\ exchange.op = "create_ticket"
    /\ exchange.department_id = 1
    /\ exchange.code = 404
\* C27: every accepted status change to closed sets closed_at to the time
\* of that change, whatever closed_at was before; a ticket closed again
\* carries the time of the later close.
C27_ClosedAtOverwritten ==
    [][(/\ exchange'.op = "update_ticket_status"
        /\ exchange'.status = "closed"
        /\ exchange'.code = 200)
       => LET tid == exchange'.ticket_id
          IN /\ tickets'[tid].closed_at = clock'
             /\ tickets'[tid].closed_at = tickets'[tid].updated_at
             /\ \A b \in exchange'.body : b.closed_at = clock'
             /\ tickets[tid].closed_at # NULL
                  => tickets'[tid].closed_at >= tickets[tid].closed_at]_vars

\* A ticket closed at a time later than its first resolution: closed_at
\* is the time of this close, resolved_at the earlier one.
C27_Witness ==
    /\ exchange.op = "update_ticket_status"
    /\ exchange.status = "closed"
    /\ exchange.code = 200
    /\ tickets[exchange.ticket_id].closed_at = clock
    /\ tickets[exchange.ticket_id].resolved_at < clock
\* The description, in lower case, has one of the keywords as a substring.
Mentions(description, keywords) ==
    LET lowered == lower(description) IN
    \E k \in {keywords[j] : j \in 1..Len(keywords)} :
       \E i \in 1..Len(lowered) :
          /\ i + Len(k) - 1 <= Len(lowered)
          /\ \A n \in 1..Len(k) : lowered[i + n - 1] = k[n]

\* C28: the heuristic priority of a description is high when it contains
\* an urgency keyword (with or without a delay keyword), medium when it
\* contains a delay keyword and no urgency keyword, low otherwise; this is
\* what ai_suggest answers and what process_ticket uses when the oracle
\* gave nothing, and simple_priority_guess and heuristic_priority agree on
\* every description.
C28_PriorityHeuristic ==
    LET d == exchange.description
        expected == IF Mentions(d, UrgencyKeywords) THEN High
                    ELSE IF Mentions(d, DelayKeywords) THEN Medium
                    ELSE Low
    IN /\ exchange.op \in {"ai_suggest", "process_ticket", "ticket_ai_insights"}
            => /\ simple_priority_guess(d) = expected
               /\ heuristic_priority(d) = simple_priority_guess(d)
       /\ (exchange.op = "ai_suggest" /\ exchange.code = 200)
            => \A b \in exchange.body : b.suggested_priority = expected
       /\ (exchange.op = "process_ticket" /\ exchange.code = 200
                                          /\ exchange.oracle = <<>>)
            => /\ \A b \in exchange.body : b.priority = expected
               /\ \A p \in exchange.sent : p.priority = expected

\* ai_suggest has answered high for a description with an urgency and a
\* delay keyword.
C28_Witness ==
    /\ exchange.op = "ai_suggest"
    /\ exchange.code = 200
    /\ Mentions(exchange.description, UrgencyKeywords)
    /\ Mentions(exchange.description, DelayKeywords)
    /\ \E b \in exchange.body : b.suggested_priority = High
\* The category of the first keyword group, in the order network,
\* hardware, student services, that the description mentions; Genel when
\* it mentions none.
FirstGroup(description) ==
    IF Mentions(description, NetworkKeywords) THEN Internet
    ELSE IF Mentions(description, HardwareKeywords) THEN Donanim
    ELSE IF Mentions(description, StudentKeywords) THEN OgrenciIslemleri
    ELSE Genel

\* The categories pick_unit has a unit for.
MappedCategories == {Internet, Donanim, OgrenciIslemleri}

\* What C29 says of a request and its response when default is the unit of
\* a category without a mapping: the heuristic category is that of the
\* first matching group, in ai_suggest and process_ticket alike when the
\* oracle gave nothing, and the unit pushed and returned is the one mapped
\* to the category, default when there is none.
CategoryAndUnit(x, default) ==
    LET d == x.description
        unit(c) == IF c = Internet THEN Network
                   ELSE IF c = Donanim THEN Donanim
                   ELSE IF c = OgrenciIslemleri THEN OgrenciIsleri
                   ELSE default
    IN /\ x.op \in {"ai_suggest", "process_ticket", "ticket_ai_insights"}
            => /\ simple_category_guess(d) = FirstGroup(d)
               /\ heuristic_category(d) = FirstGroup(d)
       /\ (x.op = "ai_suggest" /\ x.code = 200 /\ x.oracle = <<>>)
            => \A b \in x.body : b.suggested_category = FirstGroup(d)
       /\ (x.op = "process_ticket" /\ x.oracle = <<>>)
            => \A p \in x.sent : p.category = FirstGroup(d)
       /\ x.op = "process_ticket"
            => /\ \A p \in x.sent : p.assigned_unit = unit(p.category)
               /\ \A b \in x.body :
                    /\ b.assigned_unit = unit(b.category)
                    /\ \A p \in x.sent : b.category = p.category

\* C29 as stated: the heuristic category is that of the first matching
\* keyword group (network, hardware, student services; the default
\* category when none matches) and the routing unit is a fixed function of
\* the category, "General" for a category without a mapping.
C29_UnmappedUnitGeneral ==
    CategoryAndUnit(exchange, <<"G", "e", "n", "e", "r", "a", "l">>)

\* C29 with the unit the code gives: the same, with the routing unit
\* "Genel" for a category without a mapping.
C29_UnmappedUnitGenel == CategoryAndUnit(exchange, Genel)

\* The ticket carries a category without a mapping, named by the oracle in
\* an earlier run, and the unit Genel; the run in progress classified the
\* description by keywords, network before hardware, and routes to Network.
C29_Witness ==
    /\ exchange.op = "process_ticket"
    /\ exchange.oracle = <<>>
    /\ Mentions(exchange.description, NetworkKeywords)
    /\ Mentions(exchange.description, HardwareKeywords)
    /\ \E p \in exchange.sent : p.category = Internet /\ p.assigned_unit = Network
    /\ \E t \in DOMAIN tickets :
         /\ tickets[t].category \notin MappedCategories \cup {NoText, Genel}
         /\ tickets[t].assigned_unit = Genel
\* C30: first_response_at and resolved_at stay write-once when requests on
\* the same ticket overlap: once set by a commit, the value is not changed
\* by the commit of another request that read the ticket before.
C30_WriteOnceUnderInterleaving ==
    [][\A t \in DOMAIN tickets \cap DOMAIN tickets' :
          /\ tickets[t].first_response_at # NULL
               => tickets'[t].first_response_at = tickets[t].first_response_at
          /\ tickets[t].resolved_at # NULL
               => tickets'[t].resolved_at = tickets[t].resolved_at]_vars

\* Two requests have read the same ticket with first_response_at unset
\* and each holds its own, different, time for it.
C30_Witness ==
    \E a, b \in DOMAIN sessions :
       /\ a # b
       /\ sessions[a].ticket_id = sessions[b].ticket_id
       /\ sessions[a].read.first_response_at = NULL
       /\ sessions[b].read.first_response_at = NULL
       /\ sessions[a].row.first_response_at # NULL
       /\ sessions[b].row.first_response_at # NULL
       /\ sessions[a].row.first_response_at # sessions[b].row.first_response_at
\* C31: the status of a ticket implies its stamps: in_progress has
\* first_response_at set, resolved and closed have resolved_at set, closed
\* has closed_at set.
C31_StatusImpliesStamps ==
    \A t \in DOMAIN tickets :
       /\ tickets[t].status = "in_progress" => tickets[t].first_response_at # NULL
       /\ tickets[t].status \in {"resolved", "closed"} => tickets[t].resolved_at # NULL
       /\ tickets[t].status = "closed" => tickets[t].closed_at # NULL

\* A ticket closed by a status change without ever having been in
\* progress: resolved_at and closed_at are set, first_response_at is not.
C31_Witness ==
    \E t \in DOMAIN tickets :
       /\ tickets[t].status = "closed"
       /\ tickets[t].first_response_at = NULL
       /\ tickets[t].resolved_at # NULL
       /\ tickets[t].closed_at # NULL
       /\ exchange.op = "update_ticket_status"
       /\ exchange.code = 200
\* C32: a ticket with resolved_at and closed_at both set has
\* resolved_at <= closed_at.
C32_ResolvedBeforeClosed ==
    \A t \in DOMAIN tickets :
       (tickets[t].resolved_at # NULL /\ tickets[t].closed_at # NULL)
         => tickets[t].resolved_at <= tickets[t].closed_at
\* The ticket fields an agent update may write.
AgentFields == {"priority", "category", "assigned_unit", "updated_at"}

\* C33: an accepted internal_agent_update changes, of the ticket it names,
\* only priority, category, assigned_unit and updated_at, whatever the
\* ticket's status; it adds no comment or one comment, on that ticket and
\* authored by the bot user; the other tickets, the comments that
\* existed, the users and the departments stay as they were.
C33_AgentUpdateFrame ==
    [][LET x == exchange' IN
       (x.op = "internal_agent_update" /\ x.code = 200)
        => /\ DOMAIN tickets' = DOMAIN tickets
           /\ \A t \in DOMAIN tickets : \A f \in DOMAIN tickets[t] :
                 (t # x.ticket_id \/ f \notin AgentFields)
                   => tickets'[t][f] = tickets[t][f]
           /\ \A c \in DOMAIN comments :
                 c \in DOMAIN comments' /\ comments'[c] = comments[c]
           /\ Cardinality(DOMAIN comments' \ DOMAIN comments) <= 1
           /\ \A c \in DOMAIN comments' \ DOMAIN comments :
                 /\ comments'[c].ticket_id = x.ticket_id
                 /\ users[comments'[c].author_id].email = BotEmail
           /\ users' = users
           /\ departments' = departments]_vars

\* An agent update was accepted for a closed ticket: the priority and the
\* category are the agent's, the bot's comment is there, and the ticket is
\* still closed with its stamps.
C33_Witness ==
    /\ exchange.op = "internal_agent_update"
    /\ exchange.code = 200
    /\ \E t \in DOMAIN tickets :
         /\ t = exchange.ticket_id
         /\ tickets[t].status = "closed"
         /\ tickets[t].closed_at # NULL
         /\ tickets[t].priority = "high"
         /\ tickets[t].category = Internet
         /\ \E c \in DOMAIN comments :
              /\ comments[c].ticket_id = t
              /\ users[comments[c].author_id].email = BotEmail
\* The error outcomes: invalid input, assignment or state (400),
\* Unauthorized (401), Forbidden (403), NotFound (404).
ErrorCodes == {400, 401, 403, 404}

\* C34: a request that ends in an error outcome leaves the users, the
\* departments, the tickets and the comments as they were before it.
C34_ErrorLeavesStore ==
    [][(exchange' # exchange /\ exchange'.code \in ErrorCodes)
        => /\ users' = users
           /\ departments' = departments
           /\ tickets' = tickets
           /\ comments' = comments]_vars

\* An assignment was refused with 400 (the user named is not a support
\* user of the ticket's department): the ticket has no assignee.
C34_Witness ==
    /\ exchange.op = "assign_ticket"
    /\ exchange.code = 400
    /\ exchange.ticket_id \in DOMAIN tickets
    /\ tickets[exchange.ticket_id].assigned_to_id = NULL
    /\ tickets[exchange.ticket_id].assigned_at = NULL
\* C35: the durations of the department report are non-negative: for
\* every ticket, first_response_at and resolved_at, when set, are not
\* earlier than the start point (assigned_at when the ticket was assigned,
\* created_at otherwise), and no figure of a report is negative.
C35_DurationsNonNegative ==
    /\ \A t \in DOMAIN tickets :
         LET start_point == IF tickets[t].assigned_at # NULL
                            THEN tickets[t].assigned_at ELSE tickets[t].created_at
         IN /\ tickets[t].first_response_at # NULL
                 => tickets[t].first_response_at >= start_point
            /\ tickets[t].resolved_at # NULL
                 => tickets[t].resolved_at >= start_point
    /\ (exchange.op = "department_report" /\ exchange.code = 200)
         => \A r \in exchange.body : \A i \in r.supports :
              \A figure \in {i.average_response_minutes,
                              i.fastest_resolution_minutes,
                              i.slowest_resolution_minutes} :
                 figure # <<>> => figure[1] >= 0

\* A report with a negative average response time: the ticket got its
\* first response before it was assigned to the support user.
C35_NegativeResponseTime ==
    /\ exchange.op = "department_report"
    /\ exchange.code = 200
    /\ \E r \in exchange.body : \E i \in r.supports :
         /\ i.average_response_minutes # <<>>
         /\ i.average_response_minutes[1] < 0
====
